---------------------------- MODULE Spec2Model ----------------------------
(***************************************************************************)
(* A model of omnistorage-github: the GitHub repository backend            *)
(* (backend/github/backend.go) and its atomic batch committer (batch.go).  *)
(*                                                                         *)
(* The remote store is the environment.  It holds one branch pointer       *)
(* (ref), commit objects (tree, parent) and answers the calls the code     *)
(* issues: GetContents, CreateFile, DeleteFile, GetRef, GetCommit,         *)
(* CreateBlob, CreateTree, CreateCommit, UpdateRef.  Every call either     *)
(* takes effect and answers, or fails without effect (an API status or a   *)
(* transport failure that carries no response).  Object identifiers are    *)
(* content-derived: a blob's or a tree's identifier is modelled by the     *)
(* content it names, a commit's by its index in the object store.          *)
(*                                                                         *)
(* Paths are sequences of one-character strings, contents are sequences    *)
(* of bytes.                                                               *)
(*                                                                         *)
(* Commit messages and authors are carried along by the code unread and    *)
(* are left out; the repository coordinates and the token are fixed.       *)
(***************************************************************************)
EXTENDS Integers, Sequences, FiniteSets, TLC

\* ------------------------------------------------------------ bounds
\* Longest operation queue of the batch.
MaxQueue == 2
\* Number of commit objects the remote store holds at most.
MaxCommits == 3
\* Number of commits other clients make.
MaxOther == 1
\* Most bytes a writer buffers.
MaxBuf == 2
\* Longest file a windowed read is made of.
MaxLen == 3
\* Longest path that is normalized on its own.
MaxPath == 4

\* ------------------------------------------------------------ paths

\* strings.Contains(p, "..")
ContainsDotDot(p) ==
    \E i \in 1..(Len(p) - 1) : p[i] = "." /\ p[i + 1] = "."

\* validatePath: TRUE when the path is accepted.
validatePath(p) ==
    IF p = <<>> THEN TRUE
    ELSE IF ContainsDotDot(p) THEN FALSE
    ELSE TRUE

\* The slash-separated elements of p (empty elements included).
SplitPath(p) ==
    LET st[i \in 0..Len(p)] ==
            IF i = 0 THEN [acc |-> <<>>, cur |-> <<>>]
            ELSE IF p[i] = "/"
                 THEN [acc |-> Append(st[i - 1].acc, st[i - 1].cur), cur |-> <<>>]
                 ELSE [acc |-> st[i - 1].acc, cur |-> Append(st[i - 1].cur, p[i])]
    IN  Append(st[Len(p)].acc, st[Len(p)].cur)

\* The elements joined by "/".
JoinPath(elems) ==
    LET j[i \in 0..Len(elems)] ==
            IF i = 0 THEN <<>>
            ELSE IF i = 1 THEN elems[1]
            ELSE j[i - 1] \o <<"/">> \o elems[i]
    IN  j[Len(elems)]

\* path.Clean of the Go standard library, which normalizePath calls:
\* empty and "." elements are dropped, ".." removes the element before it
\* (kept in front of a relative path when nothing is left to remove, dropped
\* at the root), and the empty result is ".".
pathClean(p) ==
    IF p = <<>> THEN <<".">>
    ELSE
      LET rooted == p[1] = "/"
          elems == SplitPath(p)
          stk[i \in 0..Len(elems)] ==
              IF i = 0 THEN <<>>
              ELSE LET s == stk[i - 1]
                       e == elems[i]
                   IN  IF e = <<>> \/ e = <<".">> THEN s
                       ELSE IF e = <<".", ".">>
                            THEN IF Len(s) > 0 /\ s[Len(s)] # <<".", ".">>
                                 THEN SubSeq(s, 1, Len(s) - 1)
                                 ELSE IF rooted THEN s ELSE Append(s, e)
                            ELSE Append(s, e)
          body == JoinPath(stk[Len(elems)])
          out == IF rooted THEN <<"/">> \o body ELSE body
      IN  IF out = <<>> THEN <<".">> ELSE out

\* strings.TrimPrefix(p, "/")
TrimSlash(p) ==
    IF Len(p) > 0 /\ p[1] = "/" THEN SubSeq(p, 2, Len(p)) ELSE p

\* A normalization that trims the leading slash and cleans nothing.
normalizePathUncleaned(p) ==
    IF p = <<>> THEN <<>>
    ELSE LET q == TrimSlash(p)
         IN  IF q = <<".">> THEN <<>> ELSE q

\* normalizePath
normalizePath(p) ==
    IF p = <<>> THEN <<>>
    ELSE LET q == TrimSlash(pathClean(p))
         IN  IF q = <<".">> THEN <<>> ELSE q

\* ------------------------------------------------------------ errors

NoErr == [type |-> "nil", status |-> 0]
\* A *github.ErrorResponse whose Response carries the status (0: no Response).
ErrorResponse(s) == [type |-> "ErrorResponse", status |-> s]
\* Any other error value: a transport failure, a cancelled context.
OtherErr == [type |-> "other", status |-> 0]

\* A classification that consults the error's payload before the response.
translateErrorPayloadFirst(err, resp) ==
    IF err.type = "nil" THEN "nil"
    ELSE IF err.type = "ErrorResponse" /\ err.status # 0 /\ err.status = 404
         THEN "ErrNotFound"
    ELSE IF err.type = "ErrorResponse" /\ err.status # 0 /\ err.status \in {403, 401}
         THEN "ErrPermissionDenied"
    ELSE IF resp # 0 /\ resp = 404 THEN "ErrNotFound"
    ELSE IF resp # 0 /\ resp \in {403, 401} THEN "ErrPermissionDenied"
    ELSE "wrapped"

\* translateError(err, resp); resp is the response's status, 0 for a nil
\* response.
translateError(err, resp) ==
    IF err.type = "nil" THEN "nil"
    ELSE IF resp # 0 /\ resp = 404 THEN "ErrNotFound"
    ELSE IF resp # 0 /\ resp \in {403, 401} THEN "ErrPermissionDenied"
    ELSE IF err.type = "ErrorResponse" /\ err.status # 0 /\ err.status = 404
         THEN "ErrNotFound"
    ELSE IF err.type = "ErrorResponse" /\ err.status # 0 /\ err.status \in {403, 401}
         THEN "ErrPermissionDenied"
    ELSE "wrapped"

\* ------------------------------------------------------------ remote store

\* The file paths a tree of the model can hold, and what a path holds:
\* nothing, a blob with its bytes, or a sub-tree (a directory).
TreePaths == {<<"a">>, <<"b">>}
Contents == {<<1>>, <<2>>}
NoFile == [kind |-> "none", data |-> <<>>]
Dir == [kind |-> "dir", data |-> <<>>]
File(c) == [kind |-> "file", data |-> c]
Vals == {NoFile, Dir} \cup {File(c) : c \in Contents}
Trees == [TreePaths -> Vals]

\* A directory of the model holds one file, named "c", with the byte 1.
ChildPath(p) == p \o <<"/", "c">>
ChildFile == File(<<1>>)

\* What the contents API finds at a path of a tree: the root is a directory,
\* a path the tree does not hold is absent.
Lookup(tree, p) ==
    IF p = <<>> THEN Dir
    ELSE IF p \in DOMAIN tree THEN tree[p]
    ELSE IF \E q \in DOMAIN tree : tree[q] = Dir /\ p = ChildPath(q) THEN ChildFile
    ELSE NoFile

\* omnistorage.BasicObjectInfo, and the value that stands for no info.
ObjectInfo(p, size, isDir, hash) ==
    [path |-> p, size |-> size, isDir |-> isDir, hash |-> hash]
NoInfo == ObjectInfo(<<>>, 0, FALSE, NoFile)

\* How a remote call fails: an API error (the response and the
\* *github.ErrorResponse carry the status), or a transport failure with no
\* response at all.
ApiFailure(s) == [resp |-> s, err |-> ErrorResponse(s)]
TransportFailure == [resp |-> 0, err |-> OtherErr]
Failures == {ApiFailure(403), ApiFailure(500), TransportFailure}

VARIABLES
    ref,        \* remote: the commit the branch points at
    commits,    \* remote: the commit objects, <<[tree, parent, by]>>, by identifier
    closed,     \* Backend.closed
    ctxDone,    \* the caller's context is cancelled
    bLive,      \* a Batch has been created
    operations, \* Batch.operations
    committed,  \* Batch.committed
    bpc,        \* where the running Batch.Commit call stands ("idle": none runs)
    cur,        \* Commit: currentCommitSHA
    baseTree,   \* Commit: baseTreeSHA (the tree it names)
    idx,        \* buildTreeEntries: the operation the loop is at
    entries,    \* buildTreeEntries: entries
    newTree,    \* Commit: newTree
    newCommit,  \* Commit: newCommit
    wLive,      \* a writer has been created
    wPath,      \* writer.filePath
    buffer,     \* writer.buffer
    wClosed,    \* writer.closed
    wpc,        \* where the running writer.Close call stands
    existingSHA,\* Close: existingSHA (NoFile: nil)
    wSeen,      \* what the branch held at the writer's path when the running
                \* Close looked it up
    wSent,      \* the create-or-update mutations the writer has sent
    dpc,        \* where the running Backend.Delete call stands
    dPath,      \* Delete: normalPath
    dSHA,       \* Delete: sha
    dSeen,      \* what the branch held at the path when the running Delete
                \* looked it up
    last        \* the step just taken: the method it belongs to (act), whether
                \* it sent a remote request (net), what the method returned
                \* (ret; "pending": it goes on), the count it returned (n), the
                \* status its lookup was answered with (resp), the bytes it was
                \* passed or returned (data), the path it was called on (arg),
                \* the reader options (off, lim), the value Exists, List or
                \* Stat returned (exists, paths, info), and the error value
                \* a classification was applied to (err)

remoteVars == <<ref, commits>>
batchVars == <<bLive, operations, committed, bpc, cur, baseTree, idx, entries, newTree, newCommit>>
writerVars == <<wLive, wPath, buffer, wClosed, wpc, existingSHA, wSeen, wSent>>
deleteVars == <<dpc, dPath, dSHA, dSeen>>
vars == <<remoteVars, closed, ctxDone, batchVars, writerVars, deleteVars, last>>

\* A backend that never reports itself closed.
checkClosedNever == "nil"

\* checkClosed
checkClosed == IF closed THEN "ErrBackendClosed" ELSE "nil"

\* ctx.Err()
ctxErr == IF ctxDone THEN "context canceled" ELSE "nil"

\* A client whose calls go through under a cancelled context.
CallGoesThrough == TRUE

\* A cancelled context fails every call of the client before a request is
\* sent; a live one lets the call succeed or fail in any of the ways above.
CallFailures == IF ctxDone THEN {TransportFailure} ELSE Failures
CallCanSucceed == ~ctxDone

Step(act, net, ret) ==
    [act |-> act, net |-> net, ret |-> ret, n |-> 0, resp |-> 0, data |-> <<>>,
     arg |-> <<>>, off |-> 0, lim |-> 0, exists |-> FALSE, paths |-> <<>>,
     info |-> NoInfo, err |-> NoErr]

\* A step of a call on a path.
PathStep(act, net, ret, filePath) == [Step(act, net, ret) EXCEPT !.arg = filePath]

\* A step that ends with the answer to a lookup: resp is the response's
\* status (0: no response).
LookupStep(act, net, ret, filePath, resp) ==
    [Step(act, net, ret) EXCEPT !.arg = filePath, !.resp = resp]

EmptyTree == [p \in TreePaths |-> NoFile]

\* The commits reachable from commit c through parents, c included.
RECURSIVE Ancestors(_)
Ancestors(c) ==
    IF c = 0 THEN {} ELSE {c} \cup Ancestors(commits[c].parent)

HeadTree == commits[ref].tree

\* ------------------------------------------------------------ other clients

\* The commit the contents API makes on top of the branch head: path p
\* holds v, everything else is as before.
ContentsCommit(p, v, who) ==
    [tree |-> [HeadTree EXCEPT ![p] = v], parent |-> ref, by |-> who]

\* What another client leaves at a path: nothing, or a file.
OtherVals == {NoFile, File(<<1>>)}

\* Another client of the repository commits a change of one path on top of
\* the branch head (a write, a delete, a batch of its own): the branch
\* advances by one commit.
OtherCommit ==
    /\ Len(commits) < MaxCommits
    /\ Cardinality({c \in 1..Len(commits) : commits[c].by = "other"}) < MaxOther
    /\ \E p \in TreePaths, v \in OtherVals :
         /\ v # HeadTree[p]
         /\ commits' = Append(commits, ContentsCommit(p, v, "other"))
         /\ ref' = Len(commits) + 1
    /\ last' = Step("env", "none", "-")
    /\ UNCHANGED <<closed, ctxDone, batchVars, writerVars, deleteVars>>

\* ------------------------------------------------------------ session

\* Backend.Close
BackendClose ==
    /\ closed' = TRUE
    /\ last' = Step("BackendClose", "none", "nil")
    /\ UNCHANGED <<remoteVars, ctxDone, batchVars, writerVars, deleteVars>>

\* The caller cancels the context.
CtxCancel ==
    /\ ~ctxDone
    /\ ctxDone' = TRUE
    /\ last' = Step("env", "none", "-")
    /\ UNCHANGED <<remoteVars, closed, batchVars, writerVars, deleteVars>>

\* ------------------------------------------------------------ remote calls

\* The outcomes of a remote call: resp is the response's status (0: none),
\* err the error value, val what a successful lookup found.
Failed(f) == [resp |-> f.resp, err |-> f.err, val |-> NoFile]
Answered(v) == [resp |-> 200, err |-> NoErr, val |-> v]

\* Repositories.GetContents(path, ref = branch): 404 for an absent path, the
\* file or the directory listing otherwise.
GetContents(p) ==
    {Failed(f) : f \in CallFailures}
    \cup (IF ~CallCanSucceed THEN {}
          ELSE IF Lookup(HeadTree, p) = NoFile THEN {Failed(ApiFailure(404))}
          ELSE {Answered(Lookup(HeadTree, p))})

\* The request of a call is sent only under a live context.
Sent == IF ctxDone THEN "none" ELSE "sent"

\* Repositories.CreateFile(path, content, sha): accepted for a path that is
\* absent when no sha is given, and for a file when the sha given is that of
\* the file's blob on the branch.
CreateFileAccepts(p, sha) ==
    /\ p \in TreePaths
    /\ \/ HeadTree[p] = NoFile /\ sha = NoFile
       \/ HeadTree[p].kind = "file" /\ sha = HeadTree[p]

\* Repositories.DeleteFile(path, sha): accepted for a file whose blob on the
\* branch has the sha given.
DeleteFileAccepts(p, sha) ==
    /\ p \in TreePaths
    /\ HeadTree[p].kind = "file" /\ sha = HeadTree[p]

\* A tree made of the entries alone, whatever the base tree holds.
MergeTreeEntriesOnly(base, es) ==
    LET t[i \in 0..Len(es)] ==
            IF i = 0 THEN EmptyTree
            ELSE [t[i - 1] EXCEPT ![es[i].path] = es[i].blob]
    IN  t[Len(es)]

\* Git.CreateTree(baseTree, entries): the base tree with each entry applied by
\* path in order, a later entry for a path replacing an earlier one; an entry
\* with no blob identifier removes its path.
MergeTree(base, es) ==
    LET t[i \in 0..Len(es)] ==
            IF i = 0 THEN base
            ELSE [t[i - 1] EXCEPT ![es[i].path] = es[i].blob]
    IN  t[Len(es)]

\* The tree API refuses an entry whose path is not a file path.
TreeAccepts(es) == \A i \in 1..Len(es) : es[i].path \in TreePaths

\* A ref update that moves the branch wherever it is asked to.
RefUpdateForced(newc, force) == TRUE

\* A ref update that does not refuse a commit made on a base the branch has
\* moved past.
RefUpdateStaleBase(newc, force) == force \/ commits[newc].parent <= ref

\* Git.UpdateRef(ref, force): without force the branch moves only forward,
\* to a commit that has the commit it points at among its ancestors.
RefUpdateAllowed(newc, force) == force \/ ref \in Ancestors(newc)

\* ------------------------------------------------------------ batch

BatchOpWrite == 0
BatchOpDelete == 1
WriteOp(p, c) == [type |-> BatchOpWrite, path |-> p, content |-> c]
DeleteOp(p) == [type |-> BatchOpDelete, path |-> p, content |-> <<>>]

\* The paths callers pass: plain, rooted, empty, and with a parent reference.
RawPaths == { <<"a">>, <<"/", "b">>, <<>>, <<".", ".", "/", "a">> }

\* The bytes callers queue.
BatchContents == {<<2>>}

\* The locals of a Commit call that is not running.
NoCall ==
    /\ cur' = 0
    /\ baseTree' = EmptyTree
    /\ idx' = 0
    /\ entries' = <<>>
    /\ newTree' = EmptyTree
    /\ newCommit' = 0

\* A Commit call ends with the error (or nil) it returns; the deferred
\* Unlock releases the batch.
CommitReturns(net, ret) ==
    /\ bpc' = "idle"
    /\ NoCall
    /\ last' = Step("BatchCommit", net, ret)

\* Backend.NewBatch
NewBatch ==
    /\ ~bLive
    /\ IF checkClosed # "nil"
       THEN /\ last' = Step("NewBatch", "none", checkClosed)
            /\ UNCHANGED batchVars
       ELSE IF ctxErr # "nil"
       THEN /\ last' = Step("NewBatch", "none", ctxErr)
            /\ UNCHANGED batchVars
       ELSE /\ bLive' = TRUE
            /\ operations' = <<>>
            /\ committed' = FALSE
            /\ last' = Step("NewBatch", "none", "nil")
            /\ UNCHANGED <<bpc, cur, baseTree, idx, entries, newTree, newCommit>>
    /\ UNCHANGED <<remoteVars, closed, ctxDone>>
    /\ UNCHANGED <<writerVars, deleteVars>>

\* Queue calls that do not look at the committed flag.
QueueErrorUnguarded(filePath) ==
    IF ~validatePath(filePath) THEN "ErrInvalidPath"
    ELSE IF filePath = <<>> THEN "ErrInvalidPath"
    ELSE "nil"

\* What Batch.Write and Batch.Delete return before they append.
QueueError(filePath) ==
    IF committed THEN "batch already committed"
    ELSE IF ~validatePath(filePath) THEN "ErrInvalidPath"
    ELSE IF filePath = <<>> THEN "ErrInvalidPath"
    ELSE "nil"

\* A step of Batch.Write or Batch.Delete; a committed batch returns before
\* it looks at the path.
QueueStep(act, ret, filePath) ==
    IF committed THEN Step(act, "none", ret) ELSE PathStep(act, "none", ret, filePath)

\* A Batch.Write that creates the blob on the remote store when it queues.
BatchWriteThrough ==
    /\ bLive /\ bpc = "idle"
    /\ \E filePath \in RawPaths, content \in BatchContents :
         IF QueueError(filePath) # "nil"
         THEN /\ last' = QueueStep("BatchWrite", QueueError(filePath), filePath)
              /\ UNCHANGED operations
         ELSE /\ Len(operations) < MaxQueue
              /\ operations' = Append(operations, WriteOp(normalizePath(filePath), content))
              /\ last' = PathStep("BatchWrite", Sent, "nil", filePath)
    /\ UNCHANGED <<remoteVars, closed, ctxDone, bLive, committed, bpc, cur, baseTree,
                   idx, entries, newTree, newCommit>>
    /\ UNCHANGED <<writerVars, deleteVars>>

\* A Batch.Write that queues its operation before it looks at the path.
BatchWriteQueuesFirst ==
    /\ bLive /\ bpc = "idle"
    /\ \E filePath \in RawPaths, content \in BatchContents :
         /\ Len(operations) < MaxQueue
         /\ operations' = Append(operations, WriteOp(normalizePath(filePath), content))
         /\ last' = QueueStep("BatchWrite", QueueError(filePath), filePath)
    /\ UNCHANGED <<remoteVars, closed, ctxDone, bLive, committed, bpc, cur, baseTree,
                   idx, entries, newTree, newCommit>>
    /\ UNCHANGED <<writerVars, deleteVars>>

\* Batch.Write; it waits for the batch's mutex while a Commit runs.
BatchWrite ==
    /\ bLive /\ bpc = "idle"
    /\ \E filePath \in RawPaths, content \in BatchContents :
         IF QueueError(filePath) # "nil"
         THEN /\ last' = QueueStep("BatchWrite", QueueError(filePath), filePath)
              /\ UNCHANGED operations
         ELSE /\ Len(operations) < MaxQueue
              /\ operations' = Append(operations, WriteOp(normalizePath(filePath), content))
              /\ last' = QueueStep("BatchWrite", "nil", filePath)
    /\ UNCHANGED <<remoteVars, closed, ctxDone, bLive, committed, bpc, cur, baseTree,
                   idx, entries, newTree, newCommit>>
    /\ UNCHANGED <<writerVars, deleteVars>>

\* A Batch.Delete that does not wait for the batch's mutex.
BatchDeleteUnlocked ==
    /\ bLive
    /\ \E filePath \in RawPaths :
         IF QueueError(filePath) # "nil"
         THEN /\ last' = QueueStep("BatchDelete", QueueError(filePath), filePath)
              /\ UNCHANGED operations
         ELSE /\ Len(operations) < MaxQueue
              /\ operations' = Append(operations, DeleteOp(normalizePath(filePath)))
              /\ last' = QueueStep("BatchDelete", "nil", filePath)
    /\ UNCHANGED <<remoteVars, closed, ctxDone, bLive, committed, bpc, cur, baseTree,
                   idx, entries, newTree, newCommit>>
    /\ UNCHANGED <<writerVars, deleteVars>>

\* Batch.Delete
BatchDelete ==
    /\ bLive /\ bpc = "idle"
    /\ \E filePath \in RawPaths :
         IF QueueError(filePath) # "nil"
         THEN /\ last' = QueueStep("BatchDelete", QueueError(filePath), filePath)
              /\ UNCHANGED operations
         ELSE /\ Len(operations) < MaxQueue
              /\ operations' = Append(operations, DeleteOp(normalizePath(filePath)))
              /\ last' = QueueStep("BatchDelete", "nil", filePath)
    /\ UNCHANGED <<remoteVars, closed, ctxDone, bLive, committed, bpc, cur, baseTree,
                   idx, entries, newTree, newCommit>>
    /\ UNCHANGED <<writerVars, deleteVars>>

\* Batch.Len
BatchLen ==
    /\ bLive /\ bpc = "idle"
    /\ last' = [Step("BatchLen", "none", "nil") EXCEPT !.n = Len(operations)]
    /\ UNCHANGED <<remoteVars, closed, ctxDone, batchVars, writerVars, deleteVars>>

\* A Commit that resolves the branch for an empty queue too.
CommitStartNoEmptyCheck ==
    IF committed THEN "batch already committed"
    ELSE IF checkClosed # "nil" THEN checkClosed
    ELSE IF ctxErr # "nil" THEN ctxErr
    ELSE "go"

\* A Commit that does not look at the committed flag.
CommitStartRecommits ==
    IF checkClosed # "nil" THEN checkClosed
    ELSE IF ctxErr # "nil" THEN ctxErr
    ELSE IF Len(operations) = 0 THEN "nil"
    ELSE "go"

\* Batch.Commit up to its first remote call: what it returns at once, or
\* "go" when it goes on to resolve the branch.
CommitStart ==
    IF committed THEN "batch already committed"
    ELSE IF checkClosed # "nil" THEN checkClosed
    ELSE IF ctxErr # "nil" THEN ctxErr
    ELSE IF Len(operations) = 0 THEN "nil"
    ELSE "go"

\* A Commit that marks the batch committed before its checks.
CommitStartCommitsEarly == ~committed

\* Whether that return marks the batch committed (the empty queue).
CommitStartCommits ==
    ~committed /\ checkClosed = "nil" /\ ctxErr = "nil" /\ Len(operations) = 0

BatchCommit ==
    /\ bLive /\ bpc = "idle"
    /\ IF CommitStart = "go"
       THEN /\ bpc' = "GetRef"
            /\ last' = Step("BatchCommit", "none", "pending")
            /\ UNCHANGED committed
       ELSE /\ committed' = (committed \/ CommitStartCommits)
            /\ bpc' = "idle"
            /\ last' = Step("BatchCommit", "none", CommitStart)
    /\ UNCHANGED <<remoteVars, closed, ctxDone, bLive, operations, cur, baseTree,
                   idx, entries, newTree, newCommit>>
    /\ UNCHANGED <<writerVars, deleteVars>>

\* Commit, step 1: Git.GetRef("refs/heads/" + branch).
BatchGetRef ==
    /\ bpc = "GetRef"
    /\ \/ /\ CallCanSucceed
          /\ cur' = ref
          /\ bpc' = "GetCommit"
          /\ last' = Step("BatchCommit", Sent, "pending")
          /\ UNCHANGED <<baseTree, idx, entries, newTree, newCommit>>
       \/ \E f \in CallFailures :
            CommitReturns(Sent, translateError(f.err, f.resp))
    /\ UNCHANGED <<remoteVars, closed, ctxDone, bLive, operations, committed>>
    /\ UNCHANGED <<writerVars, deleteVars>>

\* Commit, step 2: Git.GetCommit(currentCommitSHA); the loop of
\* buildTreeEntries starts at the first operation.
BatchGetCommit ==
    /\ bpc = "GetCommit"
    /\ \/ /\ CallCanSucceed
          /\ baseTree' = commits[cur].tree
          /\ bpc' = "Build"
          /\ idx' = 1
          /\ entries' = <<>>
          /\ last' = Step("BatchCommit", Sent, "pending")
          /\ UNCHANGED <<cur, newTree, newCommit>>
       \/ \E f \in CallFailures :
            CommitReturns(Sent, translateError(f.err, f.resp))
    /\ UNCHANGED <<remoteVars, closed, ctxDone, bLive, operations, committed>>
    /\ UNCHANGED <<writerVars, deleteVars>>

\* A loop that leaves after its first operation.
AfterOpLeaves(i) == "CreateTree"

\* Where Commit stands once the loop has handled operation i.
AfterOp(i) == IF i < Len(operations) THEN "Build" ELSE "CreateTree"

\* The tree entry of a queued write: path, mode 100644, type blob, the blob.
WriteEntry(op) == [path |-> op.path, blob |-> File(op.content)]

\* A delete that never yields an entry, and one that always does.
DeleteEntriesNone(op, exists) == <<>>
DeleteEntriesAlways(op, exists) == <<[path |-> op.path, blob |-> NoFile]>>

\* The tree entries of a queued delete: an entry with a nil SHA when the
\* path exists, none when it does not.
DeleteEntries(op, exists) ==
    IF exists THEN <<[path |-> op.path, blob |-> NoFile]>> ELSE <<>>

\* buildTreeEntries, a BatchOpWrite: Git.CreateBlob, then the entry.
BatchBuildWrite ==
    /\ bpc = "Build"
    /\ operations[idx].type = BatchOpWrite
    /\ \/ /\ CallCanSucceed
          /\ entries' = Append(entries, WriteEntry(operations[idx]))
          /\ idx' = idx + 1
          /\ bpc' = AfterOp(idx)
          /\ last' = Step("BatchCommit", Sent, "pending")
          /\ UNCHANGED <<cur, baseTree, newTree, newCommit>>
       \/ \E f \in CallFailures :
            CommitReturns(Sent, translateError(f.err, f.resp))
    /\ UNCHANGED <<remoteVars, closed, ctxDone, bLive, operations, committed>>
    /\ UNCHANGED <<writerVars, deleteVars>>

\* Backend.Exists up to its remote call: the error it returns at once, or
\* "nil" when it goes on to look the path up.
ExistsStart(filePath) ==
    IF checkClosed # "nil" THEN checkClosed
    ELSE IF ctxErr # "nil" THEN ctxErr
    ELSE IF ~validatePath(filePath) THEN "ErrInvalidPath"
    ELSE "nil"

\* Backend.Exists after the lookup answered o: <<exists, err>>.
ExistsResult(o) ==
    IF o.err # NoErr
    THEN IF o.resp # 0 /\ o.resp = 404 THEN <<FALSE, "nil">>
         ELSE IF o.err.type = "ErrorResponse" /\ o.err.status # 0 /\ o.err.status = 404
              THEN <<FALSE, "nil">>
         ELSE <<FALSE, translateError(o.err, o.resp)>>
    ELSE <<TRUE, "nil">>

\* buildTreeEntries, a BatchOpDelete: Backend.Exists on the branch, then the
\* entry if the path exists.
BatchBuildDelete ==
    /\ bpc = "Build"
    /\ operations[idx].type = BatchOpDelete
    /\ LET op == operations[idx] IN
       IF ExistsStart(op.path) # "nil"
       THEN CommitReturns("none", ExistsStart(op.path))
       ELSE \E o \in GetContents(normalizePath(op.path)) :
              LET r == ExistsResult(o) IN
              IF r[2] # "nil"
              THEN CommitReturns(Sent, r[2])
              ELSE /\ entries' = entries \o DeleteEntries(op, r[1])
                   /\ idx' = idx + 1
                   /\ bpc' = AfterOp(idx)
                   /\ last' = Step("BatchCommit", Sent, "pending")
                   /\ UNCHANGED <<cur, baseTree, newTree, newCommit>>
    /\ UNCHANGED <<remoteVars, closed, ctxDone, bLive, operations, committed>>
    /\ UNCHANGED <<writerVars, deleteVars>>

\* Commit, step 4: Git.CreateTree(baseTreeSHA, treeEntries).
BatchCreateTree ==
    /\ bpc = "CreateTree"
    /\ \/ /\ CallCanSucceed
          /\ TreeAccepts(entries)
          /\ newTree' = MergeTree(baseTree, entries)
          /\ bpc' = "CreateCommit"
          /\ last' = Step("BatchCommit", Sent, "pending")
          /\ UNCHANGED <<cur, baseTree, idx, entries, newCommit>>
       \/ /\ CallCanSucceed
          /\ ~TreeAccepts(entries)
          /\ CommitReturns(Sent,
                           translateError(ErrorResponse(422), 422))
       \/ \E f \in CallFailures :
            CommitReturns(Sent, translateError(f.err, f.resp))
    /\ UNCHANGED <<remoteVars, closed, ctxDone, bLive, operations, committed>>
    /\ UNCHANGED <<writerVars, deleteVars>>

\* The commit object Commit asks for: the new tree, one parent.
NewCommitObject == [tree |-> newTree, parent |-> cur, by |-> "batch"]

\* Commit, step 5: Git.CreateCommit.
BatchCreateCommit ==
    /\ bpc = "CreateCommit"
    /\ \/ /\ CallCanSucceed
          /\ Len(commits) < MaxCommits
          /\ commits' = Append(commits, NewCommitObject)
          /\ newCommit' = Len(commits) + 1
          /\ bpc' = "UpdateRef"
          /\ last' = Step("BatchCommit", Sent, "pending")
          /\ UNCHANGED <<ref, cur, baseTree, idx, entries, newTree>>
       \/ /\ \E f \in CallFailures :
               CommitReturns(Sent,
                             translateError(f.err, f.resp))
          /\ UNCHANGED remoteVars
    /\ UNCHANGED <<closed, ctxDone, bLive, operations, committed>>
    /\ UNCHANGED <<writerVars, deleteVars>>

\* Commit returns the error of a ref update that failed with f; resp is the
\* status of the response the update was answered with (0: no response).
UpdateRefFails(f) ==
    /\ bpc' = "idle"
    /\ NoCall
    /\ last' = [Step("BatchCommit", Sent, translateError(f.err, f.resp))
                  EXCEPT !.resp = f.resp]

\* Commit, step 6: Git.UpdateRef(ref, force = false), then committed = true.
\* The remote store answers 422 to an update that is not a fast-forward.
BatchUpdateRef ==
    /\ bpc = "UpdateRef"
    /\ \/ /\ CallCanSucceed
          /\ RefUpdateAllowed(newCommit, FALSE)
          /\ ref' = newCommit
          /\ committed' = TRUE
          /\ CommitReturns(Sent, "nil")
       \/ /\ CallCanSucceed
          /\ ~RefUpdateAllowed(newCommit, FALSE)
          /\ UpdateRefFails(ApiFailure(422))
          /\ UNCHANGED <<ref, committed>>
       \/ /\ \E f \in CallFailures : UpdateRefFails(f)
          /\ UNCHANGED <<ref, committed>>
    /\ UNCHANGED <<commits, closed, ctxDone, bLive, operations>>
    /\ UNCHANGED <<writerVars, deleteVars>>

\* ------------------------------------------------------------ writer

\* The byte slices callers pass to writer.Write.
Chunks == {<<1>>, <<2>>}

\* The paths callers pass to NewWriter and Backend.Delete: those of the
\* batch, and the current directory.
ObjectPaths == RawPaths \cup {<<".">>}

\* What NewWriter and Backend.Delete return before they touch the path.
ObjectError(filePath) ==
    IF checkClosed # "nil" THEN checkClosed
    ELSE IF ctxErr # "nil" THEN ctxErr
    ELSE IF ~validatePath(filePath) THEN "ErrInvalidPath"
    ELSE IF filePath = <<>> THEN "ErrInvalidPath"
    ELSE "nil"

\* Backend.NewWriter
NewWriter ==
    /\ ~wLive
    /\ \E filePath \in ObjectPaths :
         IF ObjectError(filePath) # "nil"
         THEN /\ last' = PathStep("NewWriter", "none", ObjectError(filePath), filePath)
              /\ UNCHANGED writerVars
         ELSE /\ wLive' = TRUE
              /\ wPath' = normalizePath(filePath)
              /\ buffer' = <<>>
              /\ wClosed' = FALSE
              /\ last' = PathStep("NewWriter", "none", "nil", filePath)
              /\ UNCHANGED <<wpc, existingSHA, wSeen, wSent>>
    /\ UNCHANGED <<remoteVars, closed, ctxDone, batchVars, deleteVars>>

\* A Write that keeps only the bytes of the latest call.
BufferWriteReplaces(buf, p) == [buffer |-> p, n |-> Len(p)]

\* bytes.Buffer.Write: the bytes are appended, their count is returned.
BufferWrite(buf, p) == [buffer |-> buf \o p, n |-> Len(p)]

\* A Write that does not look at the closed flag.
WriterWriteIgnoresClosed ==
    /\ wLive /\ wpc = "idle"
    /\ \E p \in Chunks :
         /\ Len(buffer) + Len(p) <= MaxBuf
         /\ buffer' = BufferWrite(buffer, p).buffer
         /\ last' = [Step("WriterWrite", "none", "nil")
                      EXCEPT !.n = BufferWrite(buffer, p).n, !.data = p]
    /\ UNCHANGED <<wLive, wPath, wClosed, wpc, existingSHA, wSeen, wSent>>
    /\ UNCHANGED <<remoteVars, closed, ctxDone, batchVars, deleteVars>>

\* writer.Write; it waits for the writer's mutex while a Close runs.
WriterWrite ==
    /\ wLive /\ wpc = "idle"
    /\ \E p \in Chunks :
         IF wClosed
         THEN /\ last' = [Step("WriterWrite", "none", "ErrWriterClosed")
                           EXCEPT !.data = p]
              /\ UNCHANGED buffer
         ELSE /\ Len(buffer) + Len(p) <= MaxBuf
              /\ buffer' = BufferWrite(buffer, p).buffer
              /\ last' = [Step("WriterWrite", "none", "nil")
                           EXCEPT !.n = BufferWrite(buffer, p).n, !.data = p]
    /\ UNCHANGED <<wLive, wPath, wClosed, wpc, existingSHA, wSeen, wSent>>
    /\ UNCHANGED <<remoteVars, closed, ctxDone, batchVars, deleteVars>>

\* A Close that looks at nothing but the backend and the context.
CloseStartNoClosedCheck ==
    IF checkClosed # "nil" THEN checkClosed
    ELSE IF ctxErr # "nil" THEN ctxErr
    ELSE "go"

\* writer.Close up to its first remote call: what it returns at once, or
\* "go" when it goes on to look the path up.
CloseStart ==
    IF wClosed THEN "nil"
    ELSE IF checkClosed # "nil" THEN checkClosed
    ELSE IF ctxErr # "nil" THEN ctxErr
    ELSE "go"

\* A Close that marks the writer closed only when its checks pass.
ClosedAfterChecks(start) == start \in {"nil", "go"}

\* Close: w.closed = true comes before the checks, whatever they return.
ClosedAfter(start) == TRUE

\* writer.Close: closed is set before anything can fail.
WriterClose ==
    /\ wLive /\ wpc = "idle"
    /\ wClosed' = ClosedAfter(CloseStart)
    /\ IF CloseStart = "go"
       THEN /\ wpc' = "Lookup"
            /\ last' = Step("WriterClose", "none", "pending")
       ELSE /\ wpc' = "idle"
            /\ last' = Step("WriterClose", "none", CloseStart)
    /\ UNCHANGED <<wLive, wPath, buffer, existingSHA, wSeen, wSent>>
    /\ UNCHANGED <<remoteVars, closed, ctxDone, batchVars, deleteVars>>

\* What Close does with the lookup's outcome o: it goes on with the file's
\* sha, goes on without one, or returns.
CloseLookup(o) ==
    IF o.err.type = "nil" /\ o.val.kind = "file"
    THEN [go |-> TRUE, sha |-> o.val, ret |-> "pending"]
    ELSE IF o.resp # 0 /\ o.resp # 404
    THEN IF o.err.type = "ErrorResponse"
         THEN IF o.err.status = 0 \/ o.err.status # 404
              THEN [go |-> FALSE, sha |-> NoFile, ret |-> translateError(o.err, o.resp)]
              ELSE [go |-> TRUE, sha |-> NoFile, ret |-> "pending"]
         ELSE [go |-> FALSE, sha |-> NoFile, ret |-> translateError(o.err, o.resp)]
    ELSE [go |-> TRUE, sha |-> NoFile, ret |-> "pending"]

\* Close: Repositories.GetContents(w.filePath, ref = branch).
WriterLookup ==
    /\ wpc = "Lookup"
    /\ \E o \in GetContents(wPath) :
         /\ existingSHA' = CloseLookup(o).sha
         /\ wpc' = IF CloseLookup(o).go THEN "Create" ELSE "idle"
         /\ wSeen' = IF CloseLookup(o).go THEN Lookup(HeadTree, wPath) ELSE NoFile
         /\ last' = LookupStep("WriterClose", Sent, CloseLookup(o).ret, wPath, o.resp)
    /\ UNCHANGED <<wLive, wPath, buffer, wClosed, wSent>>
    /\ UNCHANGED <<remoteVars, closed, ctxDone, batchVars, deleteVars>>

\* The locals of a Close call that has returned from CreateFile; data is the
\* content the request carried.
CloseReturns(ret) ==
    /\ wpc' = "idle"
    /\ existingSHA' = NoFile
    /\ wSeen' = NoFile
    /\ last' = [Step("WriterClose", Sent, ret)
                  EXCEPT !.data = IF ctxDone THEN <<>> ELSE buffer]

\* Close: Repositories.CreateFile(w.filePath, buffer, existingSHA).
WriterCreate ==
    /\ wpc = "Create"
    /\ wSent' = IF ctxDone THEN wSent ELSE wSent + 1
    /\ \/ /\ CallCanSucceed
          /\ CreateFileAccepts(wPath, existingSHA)
          /\ Len(commits) < MaxCommits
          /\ commits' = Append(commits, ContentsCommit(wPath, File(buffer), "writer"))
          /\ ref' = Len(commits) + 1
          /\ CloseReturns("nil")
       \/ /\ CallCanSucceed
          /\ ~CreateFileAccepts(wPath, existingSHA)
          /\ CloseReturns(translateError(ErrorResponse(409), 409))
          /\ UNCHANGED remoteVars
       \/ /\ \E f \in CallFailures : CloseReturns(translateError(f.err, f.resp))
          /\ UNCHANGED remoteVars
    /\ UNCHANGED <<wLive, wPath, buffer, wClosed>>
    /\ UNCHANGED <<closed, ctxDone, batchVars, deleteVars>>

\* ------------------------------------------------------------ delete

\* Backend.Delete up to its lookup.
DeleteStart ==
    /\ dpc = "idle"
    /\ \E filePath \in ObjectPaths :
         IF ObjectError(filePath) # "nil"
         THEN /\ last' = PathStep("Delete", "none", ObjectError(filePath), filePath)
              /\ UNCHANGED deleteVars
         ELSE /\ dpc' = "Lookup"
              /\ dPath' = normalizePath(filePath)
              /\ last' = PathStep("Delete", "none", "pending", filePath)
              /\ UNCHANGED <<dSHA, dSeen>>
    /\ UNCHANGED <<remoteVars, closed, ctxDone, batchVars, writerVars>>

\* A Delete that reports the lookup's NotFound like any other failure.
DeleteLookupResultNotFound(o) ==
    IF o.err.type # "nil"
    THEN [go |-> FALSE, sha |-> NoFile, ret |-> translateError(o.err, o.resp)]
    ELSE IF o.val.kind # "file"
    THEN [go |-> FALSE, sha |-> NoFile, ret |-> "cannot delete directory"]
    ELSE [go |-> TRUE, sha |-> o.val, ret |-> "pending"]

\* A Delete that goes on to the mutation with whatever the lookup found.
DeleteLookupResultAnyKind(o) ==
    IF o.err.type # "nil"
    THEN IF o.resp # 0 /\ o.resp = 404
         THEN [go |-> FALSE, sha |-> NoFile, ret |-> "nil"]
         ELSE [go |-> FALSE, sha |-> NoFile, ret |-> translateError(o.err, o.resp)]
    ELSE [go |-> TRUE, sha |-> o.val, ret |-> "pending"]

\* What Delete does with the lookup's outcome o: it returns, or goes on with
\* the file's sha.
DeleteLookupResult(o) ==
    IF o.err.type # "nil"
    THEN IF o.resp # 0 /\ o.resp = 404
         THEN [go |-> FALSE, sha |-> NoFile, ret |-> "nil"]
         ELSE IF o.err.type = "ErrorResponse" /\ o.err.status # 0 /\ o.err.status = 404
         THEN [go |-> FALSE, sha |-> NoFile, ret |-> "nil"]
         ELSE [go |-> FALSE, sha |-> NoFile, ret |-> translateError(o.err, o.resp)]
    ELSE IF o.val.kind # "file"
    THEN [go |-> FALSE, sha |-> NoFile, ret |-> "cannot delete directory"]
    ELSE [go |-> TRUE, sha |-> o.val, ret |-> "pending"]

\* Delete: Repositories.GetContents(normalPath, ref = branch).
DeleteLookup ==
    /\ dpc = "Lookup"
    /\ \E o \in GetContents(dPath) :
         /\ dSHA' = DeleteLookupResult(o).sha
         /\ dpc' = IF DeleteLookupResult(o).go THEN "Delete" ELSE "idle"
         /\ dPath' = IF DeleteLookupResult(o).go THEN dPath ELSE <<>>
         /\ dSeen' = IF DeleteLookupResult(o).go THEN Lookup(HeadTree, dPath) ELSE NoFile
         /\ last' = LookupStep("Delete", Sent, DeleteLookupResult(o).ret, dPath, o.resp)
    /\ UNCHANGED <<remoteVars, closed, ctxDone, batchVars, writerVars>>

\* The locals of a Delete call that has returned.
DeleteReturns(ret) ==
    /\ dpc' = "idle"
    /\ dPath' = <<>>
    /\ dSHA' = NoFile
    /\ dSeen' = NoFile
    /\ last' = PathStep("Delete", Sent, ret, dPath)

\* Delete: Repositories.DeleteFile(normalPath, sha).  The remote store answers
\* 404 when the file is gone and 409 when its blob is another one.
DeleteFile ==
    /\ dpc = "Delete"
    /\ \/ /\ CallCanSucceed
          /\ DeleteFileAccepts(dPath, dSHA)
          /\ Len(commits) < MaxCommits
          /\ commits' = Append(commits, ContentsCommit(dPath, NoFile, "delete"))
          /\ ref' = Len(commits) + 1
          /\ DeleteReturns("nil")
       \/ /\ CallCanSucceed
          /\ ~DeleteFileAccepts(dPath, dSHA)
          /\ IF Lookup(HeadTree, dPath) = NoFile
             THEN DeleteReturns(translateError(ErrorResponse(404), 404))
             ELSE DeleteReturns(translateError(ErrorResponse(409), 409))
          /\ UNCHANGED remoteVars
       \/ /\ \E f \in CallFailures : DeleteReturns(translateError(f.err, f.resp))
          /\ UNCHANGED remoteVars
    /\ UNCHANGED <<closed, ctxDone, batchVars, writerVars>>

\* ------------------------------------------------------------ reading

\* The reader options callers pass (0: not set).
ReaderOptions == {[off |-> 0, lim |-> 0], [off |-> 1, lim |-> 1]}

\* The paths callers pass to NewReader, Exists and Stat, and to the
\* operations that are not supported: a file path, the root, and a path with
\* a parent reference.
ReadPaths == { <<"a">>, <<>>, <<".", ".", "/", "a">> }

\* A window that cuts to the limit before it skips to the offset.
ReaderWindowLimitFirst(data, off, lim) ==
    LET d == IF lim > 0 /\ Len(data) > lim THEN SubSeq(data, 1, lim) ELSE data
    IN  IF off > 0
        THEN IF off >= Len(d) THEN <<>> ELSE SubSeq(d, off + 1, Len(d))
        ELSE d

\* NewReader: the window the options cut out of the content.
ReaderWindow(data, off, lim) ==
    LET d == IF off > 0
             THEN IF off >= Len(data) THEN <<>> ELSE SubSeq(data, off + 1, Len(data))
             ELSE data
    IN  IF lim > 0 /\ Len(d) > lim THEN SubSeq(d, 1, lim) ELSE d

\* What NewReader, Exists and Stat return before they look the path up.
ReadError(filePath) ==
    IF checkClosed # "nil" THEN checkClosed
    ELSE IF ctxErr # "nil" THEN ctxErr
    ELSE IF ~validatePath(filePath) THEN "ErrInvalidPath"
    ELSE "nil"

\* NewReader after the lookup answered o: the error and the bytes to read.
ReaderResult(o, off, lim) ==
    IF o.err # NoErr THEN [ret |-> translateError(o.err, o.resp), data |-> <<>>]
    ELSE IF o.val.kind # "file" THEN [ret |-> "path is a directory", data |-> <<>>]
    ELSE [ret |-> "nil", data |-> ReaderWindow(o.val.data, off, lim)]

\* Backend.NewReader called with one of the options opts, and the bytes read
\* from the reader it returns.
NewReaderWith(opts) ==
    /\ \E filePath \in ReadPaths, opt \in opts :
         IF ReadError(filePath) # "nil"
         THEN last' = [PathStep("NewReader", "none", ReadError(filePath), filePath)
                         EXCEPT !.off = opt.off, !.lim = opt.lim]
         ELSE \E o \in GetContents(normalizePath(filePath)) :
                last' = [LookupStep("NewReader", Sent,
                                    ReaderResult(o, opt.off, opt.lim).ret,
                                    filePath, o.resp)
                           EXCEPT !.off = opt.off, !.lim = opt.lim,
                                  !.data = ReaderResult(o, opt.off, opt.lim).data]
    /\ UNCHANGED <<remoteVars, closed, ctxDone, batchVars, writerVars, deleteVars>>

\* Backend.NewReader
NewReader == NewReaderWith(ReaderOptions)

\* Every offset and limit up to one past the longest file.
WindowOptions == [off : 0..(MaxLen + 1), lim : 0..(MaxLen + 1)]

\* Backend.NewReader with any window.
NewReaderWindow == NewReaderWith(WindowOptions)

\* Backend.Exists
Exists ==
    /\ \E filePath \in ReadPaths :
         IF ExistsStart(filePath) # "nil"
         THEN last' = PathStep("Exists", "none", ExistsStart(filePath), filePath)
         ELSE \E o \in GetContents(normalizePath(filePath)) :
                last' = [LookupStep("Exists", Sent, ExistsResult(o)[2], filePath, o.resp)
                           EXCEPT !.exists = ExistsResult(o)[1]]
    /\ UNCHANGED <<remoteVars, closed, ctxDone, batchVars, writerVars, deleteVars>>

\* Backend.Stat after the lookup answered o.
StatResult(o, normalPath) ==
    IF o.err # NoErr THEN [ret |-> translateError(o.err, o.resp), info |-> NoInfo]
    ELSE IF o.val.kind = "dir"
    THEN [ret |-> "nil", info |-> ObjectInfo(normalPath, 0, TRUE, NoFile)]
    ELSE [ret |-> "nil",
          info |-> ObjectInfo(normalPath, Len(o.val.data), FALSE, o.val)]

\* Backend.Stat
Stat ==
    /\ \E filePath \in ReadPaths :
         IF ReadError(filePath) # "nil"
         THEN last' = PathStep("Stat", "none", ReadError(filePath), filePath)
         ELSE \E o \in GetContents(normalizePath(filePath)) :
                last' = [LookupStep("Stat", Sent,
                                    StatResult(o, normalizePath(filePath)).ret,
                                    filePath, o.resp)
                           EXCEPT !.info = StatResult(o, normalizePath(filePath)).info]
    /\ UNCHANGED <<remoteVars, closed, ctxDone, batchVars, writerVars, deleteVars>>

\* strings.HasPrefix
HasPrefix(str, prefix) ==
    Len(prefix) <= Len(str) /\ SubSeq(str, 1, Len(prefix)) = prefix

\* The paths of the model in the order a git tree lists them, a path with a
\* two-letter name among them.
TreeOrder == << <<"a">>, <<"a", "b">>, <<"b">> >>

\* Git.GetTree(branch, recursive): the entries of the tree in path order, a
\* directory followed by the file it holds.
TreeEntries(tree) ==
    LET at(p) == IF p \notin DOMAIN tree THEN <<>>
                 ELSE IF tree[p].kind = "file" THEN <<[path |-> p, type |-> "blob"]>>
                 ELSE IF tree[p].kind = "dir"
                 THEN <<[path |-> p, type |-> "tree"],
                        [path |-> ChildPath(p), type |-> "blob"]>>
                 ELSE <<>>
    IN  at(TreeOrder[1]) \o at(TreeOrder[2]) \o at(TreeOrder[3])

\* List: the loop over the entries, blobs under the prefix only.
ListPaths(es, normalPrefix) ==
    LET keep(e) == /\ e.type = "blob"
                   /\ \/ normalPrefix = <<>>
                      \/ HasPrefix(e.path, normalPrefix)
                      \/ HasPrefix(e.path, normalPrefix \o <<"/">>)
        l[i \in 0..Len(es)] ==
            IF i = 0 THEN <<>>
            ELSE IF keep(es[i]) THEN Append(l[i - 1], es[i].path) ELSE l[i - 1]
    IN  l[Len(es)]

\* The prefixes callers pass to List.
ListPrefixes == {<<>>, <<"/", "a">>, <<".", ".", "/", "a">>}

\* What List returns before it fetches the tree.
ListError ==
    IF checkClosed # "nil" THEN checkClosed
    ELSE IF ctxErr # "nil" THEN ctxErr
    ELSE "nil"

\* Backend.List.  The loop looks at the context before every entry: a
\* caller that cancels while the loop runs makes it return the context's
\* error.
List ==
    /\ \E prefix \in ListPrefixes :
         IF ListError # "nil"
         THEN /\ last' = PathStep("List", "none", ListError, prefix)
              /\ UNCHANGED ctxDone
         ELSE \/ /\ CallCanSucceed
                 /\ last' = [PathStep("List", Sent, "nil", prefix)
                               EXCEPT !.paths = ListPaths(TreeEntries(HeadTree),
                                                          normalizePath(prefix))]
                 /\ UNCHANGED ctxDone
              \/ /\ CallCanSucceed
                 /\ TreeEntries(HeadTree) # <<>>
                 /\ ctxDone' = TRUE
                 /\ last' = PathStep("List", Sent, "context canceled", prefix)
              \/ /\ \E f \in CallFailures :
                      last' = PathStep("List", Sent, translateError(f.err, f.resp), prefix)
                 /\ UNCHANGED ctxDone
    /\ UNCHANGED <<remoteVars, closed, batchVars, writerVars, deleteVars>>

\* Unsupported operations that do not look at the session.
NotSupportedUnchecked == "ErrNotSupported"

\* What Mkdir, Rmdir, Copy and Move return.
NotSupported == IF checkClosed # "nil" THEN checkClosed ELSE "ErrNotSupported"

\* Backend.Mkdir
Mkdir ==
    /\ \E filePath \in ReadPaths :
         last' = PathStep("Mkdir", "none", NotSupported, filePath)
    /\ UNCHANGED <<remoteVars, closed, ctxDone, batchVars, writerVars, deleteVars>>

\* Backend.Rmdir
Rmdir ==
    /\ \E filePath \in ReadPaths :
         last' = PathStep("Rmdir", "none", NotSupported, filePath)
    /\ UNCHANGED <<remoteVars, closed, ctxDone, batchVars, writerVars, deleteVars>>

\* Backend.Copy
Copy ==
    /\ \E src \in ReadPaths, dst \in {<<"b">>} :
         last' = PathStep("Copy", "none", NotSupported, src)
    /\ UNCHANGED <<remoteVars, closed, ctxDone, batchVars, writerVars, deleteVars>>

\* Backend.Move
Move ==
    /\ \E src \in ReadPaths, dst \in {<<"b">>} :
         last' = PathStep("Move", "none", NotSupported, src)
    /\ UNCHANGED <<remoteVars, closed, ctxDone, batchVars, writerVars, deleteVars>>

\* ------------------------------------------------------------ classification

\* The statuses a response or an error's payload carries (0: there is none).
Statuses == {0, 200, 400, 401, 403, 404, 409, 422, 500, 503}

\* The error values a call of the client returns.
ErrorValues == {NoErr, OtherErr} \cup {ErrorResponse(st) : st \in Statuses}

\* A call of translateError(err, resp).
Classify ==
    /\ \E err \in ErrorValues, resp \in Statuses :
         last' = [Step("translateError", "none", translateError(err, resp))
                    EXCEPT !.resp = resp, !.err = err]
    /\ UNCHANGED <<remoteVars, closed, ctxDone, batchVars, writerVars, deleteVars>>

\* Every path of letters, dots and slashes up to the longest.
PathInputs == UNION {[1..k -> {"a", ".", "/"}] : k \in 0..MaxPath}

\* A call of normalizePath(p).
Normalize ==
    /\ \E p \in PathInputs :
         last' = [PathStep("normalizePath", "none", "nil", p)
                    EXCEPT !.data = normalizePath(p)]
    /\ UNCHANGED <<remoteVars, closed, ctxDone, batchVars, writerVars, deleteVars>>

\* A call of validatePath(p).
Validate ==
    /\ \E p \in PathInputs :
         last' = PathStep("validatePath", "none",
                          IF validatePath(p) THEN "nil" ELSE "ErrInvalidPath", p)
    /\ UNCHANGED <<remoteVars, closed, ctxDone, batchVars, writerVars, deleteVars>>

\* ------------------------------------------------------------ specification

\* The trees the branch starts with: "a" absent or a file, "b" a file or a
\* directory.
InitTrees ==
    {t \in Trees : t[<<"a">>] \in {NoFile, File(<<1>>)}
                   /\ t[<<"b">>] \in {File(<<1>>), Dir}}

\* The session and its callers after New: nothing is open, nothing runs.
InitLocal ==
    /\ ref = 1
    /\ closed = FALSE
    /\ ctxDone = FALSE
    /\ bLive = FALSE
    /\ operations = <<>>
    /\ committed = FALSE
    /\ bpc = "idle"
    /\ cur = 0
    /\ baseTree = EmptyTree
    /\ idx = 0
    /\ entries = <<>>
    /\ newTree = EmptyTree
    /\ newCommit = 0
    /\ wLive = FALSE
    /\ wPath = <<>>
    /\ buffer = <<>>
    /\ wClosed = FALSE
    /\ wpc = "idle"
    /\ existingSHA = NoFile
    /\ wSeen = NoFile
    /\ wSent = 0
    /\ dpc = "idle"
    /\ dPath = <<>>
    /\ dSHA = NoFile
    /\ dSeen = NoFile
    /\ last = Step("Init", "none", "-")

Init ==
    /\ \E t \in InitTrees : commits = <<[tree |-> t, parent |-> 0, by |-> "init"]>>
    /\ InitLocal

\* A repository that holds the file "a" and the directory "b".
SessionTree == [p \in TreePaths |-> IF p = <<"a">> THEN File(<<1>>) ELSE Dir]

InitSession ==
    /\ commits = <<[tree |-> SessionTree, parent |-> 0, by |-> "init"]>>
    /\ InitLocal

Next ==
    \/ OtherCommit
    \/ BackendClose
    \/ CtxCancel
    \/ NewBatch
    \/ BatchWrite
    \/ BatchDelete
    \/ BatchCommit
    \/ BatchGetRef
    \/ BatchGetCommit
    \/ BatchBuildWrite
    \/ BatchBuildDelete
    \/ BatchCreateTree
    \/ BatchCreateCommit
    \/ BatchUpdateRef

Spec == Init /\ [][Next]_vars

\* A writer next to the other clients of the repository.
NextWriter ==
    \/ OtherCommit
    \/ BackendClose
    \/ CtxCancel
    \/ NewWriter
    \/ WriterWrite
    \/ WriterClose
    \/ WriterLookup
    \/ WriterCreate

SpecWriter == Init /\ [][NextWriter]_vars

\* A writer and readers with no other client of the repository.
NextRoundTrip ==
    \/ NewWriter
    \/ WriterWrite
    \/ WriterClose
    \/ WriterLookup
    \/ WriterCreate
    \/ NewReader

SpecRoundTrip == Init /\ [][NextRoundTrip]_vars

\* Backend.Delete next to the other clients of the repository.
NextDelete ==
    \/ OtherCommit
    \/ BackendClose
    \/ CtxCancel
    \/ DeleteStart
    \/ DeleteLookup
    \/ DeleteFile

SpecDelete == Init /\ [][NextDelete]_vars

\* One session from construction to Close with every operation that looks
\* at the session's state, the repository being the session's own: nothing
\* is buffered or queued.
NextSession ==
    \/ BackendClose
    \/ CtxCancel
    \/ NewReader
    \/ Exists
    \/ Stat
    \/ List
    \/ Mkdir
    \/ Rmdir
    \/ Copy
    \/ Move
    \/ NewWriter
    \/ WriterClose
    \/ WriterLookup
    \/ WriterCreate
    \/ DeleteStart
    \/ DeleteLookup
    \/ DeleteFile
    \/ NewBatch
    \/ BatchCommit

SpecSession == InitSession /\ [][NextSession]_vars

\* The calls that record an intent: the buffer of a writer and the queue of
\* a batch.
NextLocal ==
    \/ BackendClose
    \/ CtxCancel
    \/ NewWriter
    \/ WriterWrite
    \/ NewBatch
    \/ BatchWrite
    \/ BatchDelete
    \/ BatchLen

SpecLocal == Init /\ [][NextLocal]_vars

\* Backend.List on repositories that hold, next to "a" and "b", a path whose
\* name starts with the name of another.
ListTreePaths == TreePaths \cup {<<"a", "b">>}

InitList ==
    /\ \E t \in [ListTreePaths -> {NoFile, Dir, File(<<1>>)}] :
         commits = <<[tree |-> t, parent |-> 0, by |-> "init"]>>
    /\ InitLocal

NextList ==
    \/ BackendClose
    \/ CtxCancel
    \/ List

SpecList == InitList /\ [][NextList]_vars

\* The files windowed reads are made of: the bytes 1..k for every length k.
ReadContents == {[i \in 1..k |-> i] : k \in 0..MaxLen}

\* Windowed reads of a repository that holds one file, "a", and the
\* directory "b".
InitReader ==
    /\ \E d \in ReadContents :
         commits = <<[tree |-> [p \in TreePaths |-> IF p = <<"a">> THEN File(d) ELSE Dir],
                      parent |-> 0, by |-> "init"]>>
    /\ InitLocal

NextReader ==
    \/ BackendClose
    \/ CtxCancel
    \/ NewReaderWindow

SpecReader == InitReader /\ [][NextReader]_vars

\* The classification of errors on its own.
NextClassify ==
    \/ Classify

SpecClassify == InitSession /\ [][NextClassify]_vars

\* The normalization of paths on its own.
NextNormalize ==
    \/ Normalize

SpecNormalize == InitSession /\ [][NextNormalize]_vars

\* The validation of paths on its own.
NextValidate ==
    \/ Validate

SpecValidate == InitSession /\ [][NextValidate]_vars

\* One batch from NewBatch to its commits, the callers of Write, Delete, Len
\* and Commit taking turns at the batch's mutex; no other client of the
\* repository.
NextQueue ==
    \/ BackendClose
    \/ CtxCancel
    \/ NewBatch
    \/ BatchWrite
    \/ BatchDelete
    \/ BatchLen
    \/ BatchCommit
    \/ BatchGetRef
    \/ BatchGetCommit
    \/ BatchBuildWrite
    \/ BatchBuildDelete
    \/ BatchCreateTree
    \/ BatchCreateCommit
    \/ BatchUpdateRef

SpecQueue == InitSession /\ [][NextQueue]_vars

\* One Batch next to the other clients of the repository: queue calls, the
\* steps of Commit, and commits by others between any two of them.
NextRace ==
    \/ OtherCommit
    \/ NewBatch
    \/ BatchWrite
    \/ BatchDelete
    \/ BatchCommit
    \/ BatchGetRef
    \/ BatchGetCommit
    \/ BatchBuildWrite
    \/ BatchBuildDelete
    \/ BatchCreateTree
    \/ BatchCreateCommit
    \/ BatchUpdateRef

SpecRace == InitSession /\ [][NextRace]_vars

\* A writer's Close and a batch's Commit under a context the caller may
\* cancel at any point, the backend staying open; no other client of the
\* repository.
NextCancel ==
    \/ CtxCancel
    \/ NewWriter
    \/ WriterClose
    \/ WriterLookup
    \/ WriterCreate
    \/ NewBatch
    \/ BatchWrite
    \/ BatchDelete
    \/ BatchCommit
    \/ BatchGetRef
    \/ BatchGetCommit
    \/ BatchBuildWrite
    \/ BatchBuildDelete
    \/ BatchCreateTree
    \/ BatchCreateCommit
    \/ BatchUpdateRef

SpecCancel == InitSession /\ [][NextCancel]_vars

\* ------------------------------------------------------------ properties

\* The queue's effect on a tree when its operations are applied one after
\* the other: a write puts the bytes at its path, a delete removes its path.
NetEffect(tree, ops) ==
    LET t[i \in 0..Len(ops)] ==
            IF i = 0 THEN tree
            ELSE IF ops[i].type = BatchOpWrite
                 THEN [t[i - 1] EXCEPT ![ops[i].path] = File(ops[i].content)]
                 ELSE [t[i - 1] EXCEPT ![ops[i].path] = NoFile]
    IN  t[Len(ops)]

\* A step of Batch.Commit that returns an error.
CommitFails == last'.act = "BatchCommit" /\ last'.ret \notin {"nil", "pending"}

\* A step of Batch.Commit that returns success after the whole sequence.
CommitSucceeds == last'.act = "BatchCommit" /\ last'.ret = "nil" /\ bpc = "UpdateRef"

\* C1: a batch commit is all-or-nothing.  A step of Batch.Commit moves the
\* branch only when Commit returns success, and then the tree at the new head
\* is the net effect of every queued operation on the tree at the old head; a
\* Commit that returns an error leaves the branch pointer where it was.
C1_AllOrNothing ==
    [][ last'.act = "BatchCommit" =>
          /\ (ref' # ref =>
                /\ last'.ret = "nil"
                /\ commits'[ref'].tree = NetEffect(HeadTree, operations))
          /\ (CommitFails => ref' = ref) ]_vars

\* The commits of the batch that are not reachable from the branch and that
\* no running Commit is about to install.
Orphans ==
    {c \in 1..Len(commits) :
        commits[c].by = "batch" /\ c \notin Ancestors(ref) /\ c # newCommit}

\* C2: the stale-base race.  Once another writer has advanced the branch
\* past the base commit a running Commit resolved, no step of that Commit
\* moves the branch or marks the batch committed, its ref update returns an
\* error, and a commit of the batch that was left unreachable stays
\* unreachable from the branch.
C2_StaleBase ==
    [][ /\ (last'.act = "BatchCommit" /\ cur # 0 /\ ref # cur =>
              /\ ref' = ref
              /\ last'.ret # "nil"
              /\ ~committed'
              /\ (bpc = "UpdateRef" => CommitFails))
        /\ Orphans \subseteq Orphans' ]_vars

\* C2's case: the branch is at another writer's commit, and a commit the
\* batch built on the same parent was refused by the ref update.
C2_Witness ==
    /\ last.act = "BatchCommit" /\ last.net = "sent" /\ last.ret = "wrapped"
    /\ commits[ref].by = "other"
    /\ \E c \in Orphans : commits[c].parent = commits[ref].parent

\* C4: the committed flag turns true only in the step of Commit that
\* returns success, either after the ref update took effect or at once for an
\* empty queue; a Commit that returns an error leaves the flag as it was.
C4_CommittedOnlyOnSuccess ==
    [][ /\ (committed' /\ ~committed =>
              /\ last'.act = "BatchCommit"
              /\ last'.ret = "nil"
              /\ \/ bpc = "UpdateRef" /\ ref' = newCommit /\ ref = cur
                 \/ bpc = "idle" /\ operations = <<>> /\ UNCHANGED remoteVars)
        /\ (CommitFails => committed' = committed) ]_vars

\* C4's case: a Commit failed after it had created its commit object, and the
\* batch is not committed.
C4_Witness ==
    /\ last.act = "BatchCommit" /\ last.ret = "wrapped"
    /\ bpc = "idle" /\ ~committed
    /\ Orphans # {}

\* C5: on a committed batch Write, Delete and Commit return the
\* already-committed error, leave the queue as it is and send no remote
\* request; the commit sequence is not entered again.
C5_AfterCommitted ==
    [][ committed /\ last'.act \in {"BatchWrite", "BatchDelete", "BatchCommit"} =>
          /\ last'.ret = "batch already committed"
          /\ last'.net = "none"
          /\ operations' = operations
          /\ bpc' = "idle"
          /\ committed'
          /\ UNCHANGED remoteVars ]_vars

\* C5's case: a call on a batch that a full commit sequence committed was
\* refused.
C5_Witness ==
    /\ committed /\ Len(operations) > 0
    /\ last.act \in {"BatchWrite", "BatchDelete", "BatchCommit"}
    /\ last.ret = "batch already committed"

\* C6: a successful Commit of [Write(A, c), Delete(B)], A and B different
\* and B on the branch, makes the head one new commit whose parent is the
\* previous head and whose tree is the previous head's tree with A holding c
\* and B removed.
C6_WriteAndDelete ==
    [][ ( /\ CommitSucceeds
          /\ Len(operations) = 2
          /\ operations[1].type = BatchOpWrite
          /\ operations[2].type = BatchOpDelete
          /\ operations[1].path # operations[2].path
          /\ HeadTree[operations[2].path] # NoFile ) =>
          /\ ref' # ref
          /\ commits' = commits
          /\ commits[ref'].parent = ref
          /\ commits[ref'].tree =
                [HeadTree EXCEPT ![operations[1].path] = File(operations[1].content),
                                 ![operations[2].path] = NoFile] ]_vars

\* C6's case: the batch [Write("a"), Delete("b")] is committed, "b" was on
\* the branch before.
C6_Witness ==
    /\ committed
    /\ last = Step("BatchCommit", "sent", "nil")
    /\ operations = <<WriteOp(<<"a">>, <<2>>), DeleteOp(<<"b">>)>>
    /\ commits[commits[ref].parent].tree[<<"b">>] # NoFile
    /\ HeadTree[<<"a">>] = File(<<2>>)
    /\ HeadTree[<<"b">>] = NoFile

\* The last operation queued for path p (0: none).
LastOpOn(p) ==
    LET is == {i \in 1..Len(operations) : operations[i].path = p}
    IN  IF is = {} THEN 0 ELSE CHOOSE i \in is : \A j \in is : j <= i

\* C7: within one batch the last queued operation on a path wins.  After a
\* successful Commit a path whose last operation is a delete is absent from
\* the committed tree, and a path whose last operation is a write holds the
\* written bytes.
C7_LastOpWins ==
    [][ CommitSucceeds =>
          \A p \in TreePaths :
             LastOpOn(p) # 0 =>
                commits'[ref'].tree[p] =
                   IF operations[LastOpOn(p)].type = BatchOpDelete
                   THEN NoFile
                   ELSE File(operations[LastOpOn(p)].content) ]_vars

\* The queue without the deletes of paths the tree does not hold.
WithoutDropped(tree, ops) ==
    SelectSeq(ops, LAMBDA op : ~(op.type = BatchOpDelete /\ Lookup(tree, op.path) = NoFile))

\* C8: a queued delete of a path that is absent when Commit looks it up is
\* dropped.  The loop adds no tree entry for it and Commit does not return
\* not-found for it; a Commit that succeeds leaves the tree the other
\* operations alone produce.
C8_DeleteOfAbsentDropped ==
    [][ /\ ( /\ last'.act = "BatchCommit"
             /\ bpc = "Build"
             /\ operations[idx].type = BatchOpDelete
             /\ Lookup(HeadTree, operations[idx].path) = NoFile ) =>
             /\ entries' = entries \/ bpc' = "idle"
             /\ last'.ret # "ErrNotFound"
        /\ CommitSucceeds =>
             commits'[ref'].tree = NetEffect(HeadTree, WithoutDropped(HeadTree, operations)) ]_vars

\* C8's case: a committed batch of two operations, one of them a delete of a
\* path the base tree did not hold.
C8_Witness ==
    /\ committed
    /\ last = Step("BatchCommit", "sent", "nil")
    /\ Len(operations) = 2
    /\ \E i \in 1..2 :
         /\ operations[i].type = BatchOpDelete
         /\ commits[commits[ref].parent].tree[operations[i].path] = NoFile
         /\ operations[3 - i].path # operations[i].path

\* C9: on an open backend under a live context, Commit of an empty queue
\* returns success at once: no remote request, no new commit, the branch
\* unmoved, the batch committed.
C9_EmptyCommit ==
    [][ ( /\ last'.act = "BatchCommit"
          /\ bpc = "idle" /\ ~committed /\ ~closed /\ ~ctxDone
          /\ operations = <<>> ) =>
          /\ last'.ret = "nil"
          /\ last'.net = "none"
          /\ committed'
          /\ bpc' = "idle"
          /\ UNCHANGED remoteVars ]_vars

\* C9's case: an empty batch is committed and the store holds the initial
\* commit only.
C9_Witness ==
    /\ committed /\ operations = <<>>
    /\ last = Step("BatchCommit", "none", "nil")
    /\ Len(commits) = 1 /\ ref = 1


\* The mutation a running writer.Close or Backend.Delete issues finds its
\* path changed since the call looked it up.
CloseRaced == wpc = "Create" /\ Lookup(HeadTree, wPath) # wSeen
DeleteRaced == dpc = "Delete" /\ Lookup(HeadTree, dPath) # dSeen

\* C3: no lost update on single-object mutations.  When the object at the
\* path changed on the branch between the lookup of a writer.Close or a
\* Backend.Delete and its mutation, the mutation is rejected: the call
\* returns an error and the branch and the object store stay as the other
\* client left them.
C3_NoLostUpdate ==
    [][ /\ (CloseRaced /\ last'.act = "WriterClose")
             => (last'.ret # "nil" /\ UNCHANGED remoteVars)
        /\ (DeleteRaced /\ last'.act = "Delete")
             => (last'.ret # "nil" /\ UNCHANGED remoteVars) ]_vars

\* The commits a writer's Close calls made.
WriterCommits == {c \in 1..Len(commits) : commits[c].by = "writer"}

\* C10: writer.Close is idempotent.  A Close of a writer that was closed
\* before returns success at once, sends nothing and changes nothing on the
\* remote store; over the life of a writer at most one mutation is sent and
\* at most one commit made.
C10_CloseIdempotent ==
    /\ [][ (wLive /\ wpc = "idle" /\ wClosed /\ last'.act = "WriterClose")
             => (last' = Step("WriterClose", "none", "nil")
                 /\ wpc' = "idle" /\ UNCHANGED remoteVars) ]_vars
    /\ [](wSent <= 1 /\ Cardinality(WriterCommits) <= 1)

\* A second Close has returned after the first one committed the file.
C10_Witness ==
    /\ wClosed /\ wpc = "idle"
    /\ last = Step("WriterClose", "none", "nil")
    /\ wSent = 1
    /\ Cardinality(WriterCommits) = 1

\* The step of a running writer.Close in which its lookup is answered.
CloseLookupStep == wpc = "Lookup" /\ last'.act = "WriterClose"

\* C11: in writer.Close every failure of the lookup other than NotFound, a
\* transport failure without a response included, ends the call with the
\* error and before any mutation; a NotFound lookup goes on to the mutation
\* without a version marker.
C11_LookupFailureAborts ==
    [][ CloseLookupStep =>
          /\ (last'.resp = 404) => (wpc' = "Create" /\ existingSHA' = NoFile)
          /\ (last'.resp \notin {200, 404})
                => (wpc' = "idle" /\ last'.ret \notin {"nil", "pending"}) ]_vars

\* C12: when the lookup of writer.Close is answered with a directory, Close
\* returns an error other than NotFound and goes on to no mutation.
C12_DirectoryLookupFails ==
    [][ (CloseLookupStep /\ last'.resp = 200 /\ Lookup(HeadTree, wPath).kind = "dir")
          => (wpc' = "idle" /\ last'.ret \notin {"nil", "pending", "ErrNotFound"}) ]_vars

\* A writer.Close call that did not find the writer closed returns success.
CloseSucceeds == wpc # "idle" /\ last'.act = "WriterClose" /\ last'.ret = "nil"

\* A NewReader without options returns bytes.
ReadSucceeds ==
    last'.act = "NewReader" /\ last'.ret = "nil" /\ last'.off = 0 /\ last'.lim = 0

\* C13: write/read round trip with no other client.  When writer.Close
\* returns success the branch holds the buffered bytes at the writer's path,
\* put there by a mutation that carried the hash of the file it replaced
\* (none for a path that was absent), and a read yields exactly the bytes
\* the branch holds at the path.
C13_RoundTrip ==
    [][ /\ CloseSucceeds
             => /\ Lookup(commits'[ref'].tree, wPath) = File(buffer)
                /\ existingSHA = Lookup(HeadTree, wPath)
        /\ ReadSucceeds
             => last'.data = Lookup(HeadTree, normalizePath(last'.arg)).data ]_vars

\* C14: Backend.Delete is idempotent.  A lookup answered NotFound ends the
\* call with success before any mutation and without a commit; a Delete
\* that returns success makes one commit when its lookup found the file and
\* none otherwise, so a second Delete of a deleted file adds no commit.
C14_DeleteIdempotent ==
    [][ /\ (dpc = "Lookup" /\ last'.act = "Delete" /\ last'.resp = 404)
             => (last'.ret = "nil" /\ dpc' = "idle" /\ UNCHANGED remoteVars)
        /\ (last'.act = "Delete" /\ last'.ret = "nil")
             => IF dpc = "Delete"
                THEN /\ Len(commits') = Len(commits) + 1
                     /\ Lookup(commits'[ref'].tree, last'.arg) = NoFile
                ELSE UNCHANGED remoteVars ]_vars

\* A Delete found the file gone that the Delete before it removed.
C14_Witness ==
    /\ last.act = "Delete" /\ last.ret = "nil" /\ last.resp = 404
    /\ last.arg \in TreePaths
    /\ commits[ref].by = "delete"
    /\ commits[ref].tree[last.arg] = NoFile
    /\ commits[commits[ref].parent].tree[last.arg].kind = "file"
    /\ Cardinality({c \in 1..Len(commits) : commits[c].by = "delete"}) = 1

\* The step advances the branch by exactly one commit: one object is added,
\* its parent is the old head, and it is the new head.
AdvancesByOne ==
    /\ Len(commits') = Len(commits) + 1
    /\ ref' = Len(commits')
    /\ commits'[ref'].parent = ref

\* The step advances the branch by one commit made before the step.
MovesByOne ==
    /\ ref' # ref
    /\ commits' = commits
    /\ commits[ref'].parent = ref

\* C15: commits per operation.  A writer.Close that returns success on the
\* writer's first Close, a Backend.Delete that returns success for a file
\* its lookup found, and a Batch.Commit that returns success with a
\* non-empty queue each advance the branch by exactly one commit, and no
\* step of any call advances it by more than one.
C15_OneCommitPerOperation ==
    [][ /\ CloseSucceeds => AdvancesByOne
        /\ (dpc = "Delete" /\ last'.act = "Delete" /\ last'.ret = "nil") => AdvancesByOne
        /\ (CommitSucceeds /\ Len(operations) > 0) => MovesByOne
        /\ (ref' # ref) => commits'[ref'].parent = ref ]_vars

\* The operations that are one step, and the step in which a call of any
\* operation starts.
OneStepActs ==
    {"NewReader", "NewWriter", "Exists", "List", "Stat", "Mkdir", "Rmdir", "Copy",
     "Move", "NewBatch"}
CallStarts ==
    \/ last'.act \in OneStepActs
    \/ last'.act = "Delete" /\ dpc = "idle"
    \/ last'.act = "WriterClose" /\ wpc = "idle"
    \/ last'.act = "BatchCommit" /\ bpc = "idle"

\* Backend.Close is one-way, and a Close of a closed backend returns
\* success and changes nothing.
CloseOneWay ==
    /\ closed => closed'
    /\ (closed /\ last'.act = "BackendClose")
         => /\ last'.ret = "nil"
            /\ UNCHANGED <<remoteVars, closed, ctxDone, batchVars, writerVars, deleteVars>>

\* A call fails with BackendClosed and sends nothing.
FailsClosed ==
    /\ last'.ret = "ErrBackendClosed"
    /\ last'.net = "none"
    /\ UNCHANGED remoteVars

\* C16, as stated: Backend.Close is one-way and idempotent, and every call
\* of NewReader, NewWriter, Exists, Delete, List, Stat, Mkdir, Rmdir, Copy,
\* Move, NewBatch, writer.Close or Batch.Commit that starts on a closed
\* backend fails with BackendClosed without a remote call.
C16_AsStated ==
    [][ CloseOneWay /\ ((closed /\ CallStarts) => FailsClosed) ]_vars

\* C16: Backend.Close is one-way and idempotent, and every call that starts
\* on a closed backend sends nothing: it fails with BackendClosed, except
\* that the Close of a writer that was closed before returns success and the
\* Commit of a batch that was committed before fails with "already
\* committed".
C16_ClosedSession ==
    [][ /\ CloseOneWay
        /\ (closed /\ CallStarts)
             => IF last'.act = "WriterClose" /\ wClosed
                THEN last'.ret = "nil" /\ last'.net = "none" /\ UNCHANGED remoteVars
                ELSE IF last'.act = "BatchCommit" /\ committed
                THEN /\ last'.ret = "batch already committed"
                     /\ last'.net = "none" /\ UNCHANGED remoteVars
                ELSE FailsClosed ]_vars

\* The first Close of a writer was refused on a closed backend, next to a
\* batch that is still open.
C16_Witness ==
    /\ closed /\ wLive /\ wClosed
    /\ last = Step("WriterClose", "none", "ErrBackendClosed")
    /\ bLive /\ ~committed

\* C17: writer.Write on an open writer appends the bytes it is passed to the
\* buffer and returns their count with no error; on a closed writer it
\* returns WriterClosed and 0 and leaves the buffer as it is.
C17_WriterWrite ==
    [][ (last'.act = "WriterWrite") =>
          IF wClosed
          THEN /\ last'.ret = "ErrWriterClosed" /\ last'.n = 0
               /\ buffer' = buffer
          ELSE /\ last'.ret = "nil" /\ last'.n = Len(last'.data)
               /\ buffer' = buffer \o last'.data ]_vars

\* A Write was refused by a closed writer that holds the bytes of two
\* earlier writes.
C17_Witness ==
    /\ wClosed
    /\ last.act = "WriterWrite" /\ last.ret = "ErrWriterClosed"
    /\ buffer = <<1, 2>>

\* The calls that record an intent or report one.
LocalActs ==
    {"NewWriter", "WriterWrite", "NewBatch", "BatchWrite", "BatchDelete", "BatchLen"}

\* C18: intents are local until finalize/commit.  NewWriter, writer.Write,
\* NewBatch, Batch.Write, Batch.Delete and Batch.Len send no remote request
\* and leave the branch and the object store as they are; Batch.Len returns
\* the length of the queue.
C18_IntentsLocal ==
    [][ (last'.act \in LocalActs) =>
          /\ last'.net = "none"
          /\ UNCHANGED remoteVars
          /\ (last'.act = "BatchLen") => (last'.n = Len(operations)) ]_vars

\* A writer holds bytes and a batch a full queue, and the repository is as
\* it was.
C18_Witness ==
    /\ wLive /\ buffer # <<>>
    /\ bLive /\ Len(operations) = MaxQueue
    /\ last.act = "BatchLen" /\ last.n = MaxQueue
    /\ ref = 1 /\ Len(commits) = 1

\* One of the slash-separated segments of p is "..".
HasDotDotSegment(p) ==
    \E i \in 1..Len(SplitPath(p)) : SplitPath(p)[i] = <<".", ".">>

\* The step in which a call that takes a path or a prefix starts, on an
\* open backend with a live context (and, for a batch, before its commit).
PathCallStarts ==
    /\ ~closed /\ ~ctxDone
    /\ \/ last'.act \in {"NewReader", "NewWriter", "Exists", "Stat", "List"}
       \/ last'.act = "Delete" /\ dpc = "idle"
       \/ last'.act \in {"BatchWrite", "BatchDelete"} /\ ~committed

\* The call is refused with InvalidPath: nothing is sent, nothing is queued,
\* no writer is made and no Delete goes on.
RefusedInvalid ==
    /\ last'.ret = "ErrInvalidPath"
    /\ last'.net = "none"
    /\ UNCHANGED <<remoteVars, operations, wLive, dpc>>

\* C19: path validation precedes the network.  NewReader, NewWriter, Exists,
\* Delete, Stat, List, Batch.Write and Batch.Delete refuse an argument with
\* a ".." segment in its raw form with InvalidPath, before any remote call
\* and without queuing anything.
C19_ValidationFirst ==
    [][ (PathCallStarts /\ HasDotDotSegment(last'.arg)) => RefusedInvalid ]_vars

\* The step in which a call that names a target to write or delete starts,
\* on an open backend with a live context (and, for a batch, before its
\* commit).
TargetCallStarts ==
    /\ ~closed /\ ~ctxDone
    /\ \/ last'.act = "NewWriter"
       \/ last'.act = "Delete" /\ dpc = "idle"
       \/ last'.act \in {"BatchWrite", "BatchDelete"} /\ ~committed

\* C20: write and delete targets are concrete leaves.  NewWriter,
\* Backend.Delete, Batch.Write and Batch.Delete refuse with InvalidPath,
\* before any remote call and without queuing anything, every path whose
\* normalized form is empty, and no writer and no queued operation ever
\* holds the empty path.
C20_TargetsAreLeaves ==
    /\ [][ (TargetCallStarts /\ normalizePath(last'.arg) = <<>>) => RefusedInvalid ]_vars
    /\ [](wLive => wPath # <<>>)
    /\ [](\A i \in 1..Len(operations) : operations[i].path # <<>>)

\* The step in which the ref update of a running Batch.Commit is refused
\* because the branch is no longer at the base commit.
UpdateRefRefused ==
    bpc = "UpdateRef" /\ last'.act = "BatchCommit" /\ last'.resp = 422 /\ ref # cur

\* C21: a Batch.Commit whose ref update is refused because the branch moved
\* since the base commit was resolved returns an error of a kind of its own,
\* not the generic error that wraps a transport failure.
C21_ConflictKind ==
    [][ UpdateRefRefused
          => last'.ret \notin {"nil", "pending", translateError(OtherErr, 0)} ]_vars

\* The paths of the blobs among the entries es that are the path np or lie
\* under the directory np, in the order of es; every blob for the empty np.
BlobsUnder(es, np) ==
    LET under(e) == /\ e.type = "blob"
                    /\ \/ np = <<>>
                       \/ e.path = np
                       \/ HasPrefix(e.path, np \o <<"/">>)
        l[i \in 0..Len(es)] ==
            IF i = 0 THEN <<>>
            ELSE IF under(es[i]) THEN Append(l[i - 1], es[i].path) ELSE l[i - 1]
    IN  l[Len(es)]

\* C22: a List that returns success returns, in tree order, exactly the
\* blobs of the branch's recursive tree whose path is the normalized prefix
\* or starts with the normalized prefix followed by "/": no tree entry, every
\* blob for the empty prefix, and no sibling whose name merely starts with
\* the prefix.
C22_ListPrefix ==
    [][ (last'.act = "List" /\ last'.ret = "nil")
          => last'.paths = BlobsUnder(TreeEntries(HeadTree), normalizePath(last'.arg)) ]_vars

\* The smaller of two numbers.
Min(x, y) == IF x <= y THEN x ELSE y

\* C23: the client-side window of NewReader.  For a file of n bytes, offset
\* o and limit l the reader yields the bytes [min(o, n), n) when no limit is
\* set and [min(o, n), min(o + l, n)) when l > 0; an offset at or beyond n
\* yields no bytes and no error, and a limit l never yields more than l
\* bytes.
C23_ReaderWindow ==
    [][ last'.act = "NewReader" =>
          LET f == Lookup(HeadTree, normalizePath(last'.arg))
              n == Len(f.data)
              o == last'.off
              l == last'.lim
          IN  /\ (last'.resp = 200 /\ f.kind = "file") => last'.ret = "nil"
              /\ (last'.ret = "nil") =>
                    /\ last'.data = SubSeq(f.data, Min(o, n) + 1,
                                           IF l > 0 THEN Min(o + l, n) ELSE n)
                    /\ (o >= n) => last'.data = <<>>
                    /\ (l > 0) => Len(last'.data) <= l ]_vars

\* A read of the longest file with offset 1 and limit 1 yielded its second
\* byte.
C23_Witness ==
    /\ last.act = "NewReader" /\ last.ret = "nil"
    /\ last.off = 1 /\ last.lim = 1
    /\ Len(HeadTree[<<"a">>].data) = MaxLen
    /\ last.data = <<2>>

\* C24: a Backend.Delete whose lookup is answered with a directory returns
\* the cannot-delete-a-directory error, goes on to no delete mutation and
\* makes no commit.
C24_DeleteDirectory ==
    [][ ( /\ dpc = "Lookup" /\ last'.act = "Delete"
          /\ last'.resp = 200 /\ Lookup(HeadTree, dPath).kind = "dir" )
          => /\ last'.ret = "cannot delete directory"
             /\ dpc' = "idle"
             /\ UNCHANGED remoteVars ]_vars

\* A Delete of the directory "b" was refused and the repository holds the
\* initial commit only.
C24_Witness ==
    /\ last.act = "Delete" /\ last.ret = "cannot delete directory"
    /\ last.arg = <<"b">>
    /\ HeadTree[<<"b">>] = Dir
    /\ dpc = "idle"
    /\ Len(commits) = 1

\* C25: Copy, Move, Mkdir and Rmdir return NotSupported on an open backend
\* and BackendClosed on a closed one, for every argument and whatever the
\* context; they send no remote request and change nothing.
C25_Unsupported ==
    [][ last'.act \in {"Mkdir", "Rmdir", "Copy", "Move"} =>
          /\ last'.ret = IF closed THEN "ErrBackendClosed" ELSE "ErrNotSupported"
          /\ last'.net = "none"
          /\ UNCHANGED <<remoteVars, closed, ctxDone, batchVars, writerVars,
                          deleteVars>> ]_vars

\* A Copy with a parent reference in its source path and under a cancelled
\* context returned NotSupported on the open backend.
C25_Witness ==
    /\ ~closed /\ ctxDone
    /\ last.act = "Copy" /\ last.ret = "ErrNotSupported"
    /\ ~validatePath(last.arg)

\* C26: error classification is a total function of the response's status
\* and the status of the error's structured payload.  A nil error gives no
\* error; a response status of 404 gives NotFound and 401 or 403
\* PermissionDenied; otherwise a payload status of 404 gives NotFound and 401
\* or 403 PermissionDenied; every other failure gives the generic wrapping
\* error.  The response is consulted before the payload.
C26_Classification ==
    [][ last'.act = "translateError" =>
          LET r == last'.resp
              e == last'.err
              p == IF e.type = "ErrorResponse" THEN e.status ELSE 0
          IN  /\ last'.ret \in {"nil", "ErrNotFound", "ErrPermissionDenied", "wrapped"}
              /\ last'.ret = "nil" <=> e = NoErr
              /\ (e # NoErr /\ r = 404) => last'.ret = "ErrNotFound"
              /\ (e # NoErr /\ r \in {401, 403}) => last'.ret = "ErrPermissionDenied"
              /\ (e # NoErr /\ r \notin {401, 403, 404}) =>
                    last'.ret = IF p = 404 THEN "ErrNotFound"
                                ELSE IF p \in {401, 403} THEN "ErrPermissionDenied"
                                ELSE "wrapped" ]_vars

\* A response of 404 with a payload of 403 was classified NotFound.
C26_Witness ==
    /\ last.act = "translateError"
    /\ last.resp = 404 /\ last.err = ErrorResponse(403)
    /\ last.ret = "ErrNotFound"

\* C27: normalizePath is idempotent, never returns a path that starts with
\* a slash, and maps the empty path, "." and "/" to the empty path.
C27_NormalizeIdempotent ==
    [][ last'.act = "normalizePath" =>
          LET q == last'.data
          IN  /\ normalizePath(q) = q
              /\ q = <<>> \/ q[1] # "/"
              /\ (last'.arg \in {<<>>, <<".">>, <<"/">>}) => q = <<>> ]_vars

\* The path "//.a" was normalized to ".a".
C27_Witness ==
    /\ last.act = "normalizePath"
    /\ last.arg = <<"/", "/", ".", "a">>
    /\ last.data = <<".", "a">>

\* The paths the tree entries es name.
EntryPaths(es) == {es[i].path : i \in 1..Len(es)}

\* C28: linear history.  A step of Batch.Commit that moves the branch is
\* its ref update; the new head is the commit the call created, its one
\* parent is the base commit the call resolved, which is the commit the
\* branch pointed at until this step, and its tree is the base commit's tree
\* on every path no entry names.  The update does not move a branch that is
\* no longer at the base commit, and no step of any client takes a commit
\* that was reachable from the branch out of its history.
C28_LinearHistory ==
    [][ /\ (last'.act = "BatchCommit" /\ ref' # ref) =>
              /\ bpc = "UpdateRef"
              /\ ref' = newCommit
              /\ commits' = commits
              /\ commits[ref'].parent = cur
              /\ cur = ref
              /\ \A p \in TreePaths \ EntryPaths(entries) :
                     commits[ref'].tree[p] = commits[cur].tree[p]
        /\ (last'.act = "BatchCommit" /\ bpc = "UpdateRef" /\ ref # cur) => ref' = ref
        /\ Ancestors(ref) \subseteq Ancestors(ref)' ]_vars

\* The batch committed on top of another client's commit: the history is
\* the initial commit, the other client's, the batch's, and a path the batch
\* did not name is as the other client left it.
C28_Witness ==
    /\ committed
    /\ last = Step("BatchCommit", "sent", "nil")
    /\ Len(commits) = 3 /\ ref = 3
    /\ commits[3].by = "batch" /\ commits[3].parent = 2
    /\ commits[2].by = "other" /\ commits[2].parent = 1
    /\ \E p \in TreePaths :
         /\ \A i \in 1..Len(operations) : operations[i].path # p
         /\ commits[3].tree[p] = commits[2].tree[p]
         /\ commits[2].tree[p] # commits[1].tree[p]

\* How many remote steps the running Batch.Commit has behind it, plus one
\* (0: no call runs).
CommitRank ==
    CASE bpc = "idle" -> 0
      [] bpc = "GetRef" -> 1
      [] bpc = "GetCommit" -> 2
      [] bpc = "Build" -> 2 + idx
      [] bpc = "CreateTree" -> 3 + Len(operations)
      [] bpc = "CreateCommit" -> 4 + Len(operations)
      [] bpc = "UpdateRef" -> 5 + Len(operations)

\* C29: the remote steps of one Batch.Commit call come in one order, each
\* once and only after the one before it succeeded: the branch ref, the
\* base commit, for every queued operation in queue order one blob creation
\* or one existence lookup, the tree, the commit, the ref update.  A step
\* that fails ends the call with its error and nothing is sent after it; the
\* call returns success only from the ref update, and only that step moves
\* the branch.
C29_CommitSequence ==
    [][ last'.act = "BatchCommit" =>
          /\ operations' = operations
          /\ last'.ret = "pending" =>
                /\ CommitRank' = CommitRank + 1
                /\ bpc # "idle" => last'.net = "sent"
                /\ ref' = ref
          /\ last'.ret # "pending" => bpc' = "idle"
          /\ (last'.ret = "nil" /\ bpc # "idle") => bpc = "UpdateRef"
          /\ (bpc = "Build" /\ last'.ret = "pending") =>
                IF operations[idx].type = BatchOpWrite
                THEN entries' = Append(entries, WriteEntry(operations[idx]))
                ELSE entries' \in {entries, entries \o DeleteEntries(operations[idx], TRUE)}
          /\ bpc = "idle" => last'.net = "none" ]_vars

\* A Commit of a write followed by a delete stands before its ref update:
\* the blob was created first, the lookup found the path, the tree and the
\* commit were created.
C29_Witness ==
    /\ bpc = "UpdateRef"
    /\ Len(operations) = 2
    /\ operations[1].type = BatchOpWrite /\ operations[2].type = BatchOpDelete
    /\ entries = <<WriteEntry(operations[1])>> \o DeleteEntries(operations[2], TRUE)
    /\ newCommit = Len(commits)
    /\ commits[newCommit].tree = newTree
    /\ last = Step("BatchCommit", "sent", "pending")

\* C30: writer.Close marks the writer closed whatever it returns.  Every
\* step of a Close leaves the writer closed, and a closed writer stays
\* closed; once a Close has returned, a Write returns WriterClosed and
\* leaves the buffer as it is, a Close returns success at once, and neither
\* sends a request, changes the repository or sends the buffered bytes
\* again.
C30_ClosedRegardless ==
    [][ /\ (last'.act = "WriterClose") => wClosed'
        /\ wClosed => wClosed'
        /\ (wClosed /\ wpc = "idle" /\ last'.act \in {"WriterWrite", "WriterClose"}) =>
              /\ last'.ret = IF last'.act = "WriterWrite" THEN "ErrWriterClosed" ELSE "nil"
              /\ last'.net = "none"
              /\ wpc' = "idle"
              /\ UNCHANGED <<remoteVars, buffer, wSent>> ]_vars

\* A Write was refused after the first Close failed in its mutation: one
\* mutation was sent, the writer made no commit, the bytes are still
\* buffered.
C30_Witness ==
    /\ wClosed /\ wpc = "idle"
    /\ last.act = "WriterWrite" /\ last.ret = "ErrWriterClosed"
    /\ buffer # <<>>
    /\ wSent = 1
    /\ WriterCommits = {}

\* A step of Batch.Write or Batch.Delete that returns success.
QueueCallSucceeds == last'.act \in {"BatchWrite", "BatchDelete"} /\ last'.ret = "nil"

\* C31: queuing and committing on one batch exclude each other.  A step of
\* Batch.Write or Batch.Delete is taken only while no Commit runs and is the
\* whole call; while a Commit runs the queue stays as the Commit found it; a
\* queue call that returns success has appended its one operation whole;
\* and a Commit that returns success has taken every queued operation
\* through its loop, every queued write with its tree entry.
C31_QueueCommitExclusive ==
    [][ /\ (last'.act \in {"BatchWrite", "BatchDelete", "BatchLen"})
              => (bpc = "idle" /\ bpc' = "idle")
        /\ (bpc # "idle") => operations' = operations
        /\ QueueCallSucceeds =>
              /\ Len(operations') = Len(operations) + 1
              /\ SubSeq(operations', 1, Len(operations)) = operations
              /\ operations'[Len(operations')] =
                    IF last'.act = "BatchWrite"
                    THEN WriteOp(normalizePath(last'.arg), operations'[Len(operations')].content)
                    ELSE DeleteOp(normalizePath(last'.arg))
        /\ CommitSucceeds =>
              /\ idx = Len(operations) + 1
              /\ \A i \in 1..Len(operations) :
                    operations[i].type = BatchOpWrite =>
                       \E j \in 1..Len(entries) : entries[j] = WriteEntry(operations[i]) ]_vars

\* A Commit failed in its ref update, a queue call then added an operation,
\* and a second Commit succeeded with both: the commit left behind and the
\* head differ in the path queued in between.
C31_Witness ==
    /\ committed
    /\ last = Step("BatchCommit", "sent", "nil")
    /\ Len(operations) = 2
    /\ operations[1].path # operations[2].path
    /\ \E c \in Orphans :
         /\ commits[c].tree[operations[2].path] # HeadTree[operations[2].path]
         /\ commits[c].tree[operations[1].path] = HeadTree[operations[1].path]

\* C32: Write and Close on one writer from different callers.  The buffer
\* is empty when the writer is made and changes only by a Write that
\* returns success, which appends its bytes; a Write runs only while no
\* Close holds the writer, returns success exactly when the writer is not
\* closed, and otherwise returns WriterClosed and adds nothing; the one
\* mutation a writer sends carries the buffer, which is the bytes of the
\* successful Writes in the order they took the lock.
C32_WriteCloseRace ==
    [][ /\ (last'.act = "NewWriter" /\ last'.ret = "nil") => buffer' = <<>>
        /\ (last'.act = "WriterWrite") =>
              /\ wpc = "idle"
              /\ last'.ret = IF wClosed THEN "ErrWriterClosed" ELSE "nil"
              /\ buffer' = IF wClosed THEN buffer ELSE buffer \o last'.data
        /\ (wLive /\ last'.act # "WriterWrite") => buffer' = buffer
        /\ (wpc = "Create" /\ last'.act = "WriterClose" /\ last'.net = "sent")
              => (last'.data = buffer /\ wClosed)
        /\ (last'.act = "WriterClose" /\ ref' # ref)
              => commits'[ref'].tree[wPath] = File(buffer)
        /\ wSent' <= 1 ]_vars

\* Two Writes, a Close that committed their bytes in order, and a Write
\* that came after the Close and was refused.
C32_Witness ==
    /\ wClosed /\ wpc = "idle" /\ wSent = 1
    /\ last.act = "WriterWrite" /\ last.ret = "ErrWriterClosed" /\ last.data = <<1>>
    /\ buffer = <<2, 1>>
    /\ commits[ref].by = "writer"
    /\ HeadTree[wPath] = File(<<2, 1>>)

C34_DeleteLookupOutcomes ==
    [][ /\ ( /\ bpc = "Build" /\ last'.act = "BatchCommit"
             /\ operations[idx].type = BatchOpDelete
             /\ last'.net = "sent" /\ last'.ret \in {"pending", "ErrNotFound"} ) =>
              LET op == operations[idx]
                  v  == Lookup(HeadTree, op.path)
              IN  /\ v = NoFile => (last'.ret = "pending" /\ entries' = entries)
                  /\ v.kind = "file" =>
                        /\ last'.ret = "pending"
                        /\ entries' = Append(entries, [path |-> op.path, blob |-> NoFile])
                  /\ v = Dir => (last'.ret # "pending" /\ bpc' = "idle")
        /\ (bpc = "CreateTree" /\ last'.act = "BatchCommit" /\ last'.net = "sent") =>
              \A i \in 1..Len(entries) :
                  entries[i].blob = NoFile => Lookup(baseTree, entries[i].path) # Dir
      ]_vars

\* C35: a Batch.Write or Batch.Delete that returns an error, and a
\* Batch.Commit that returns an error, leave the queue (contents and order)
\* and the committed flag as they were.  A queue call that succeeds appends
\* exactly one operation, its own, at the end; nothing else changes the
\* queue of a batch, and Len reports its length.
C35_QueueFrame ==
    [][ /\ (last'.act \in {"BatchWrite", "BatchDelete"} /\ last'.ret # "nil")
              => UNCHANGED <<operations, committed>>
        /\ (last'.act = "BatchCommit" /\ last'.ret # "nil")
              => UNCHANGED <<operations, committed>>
        /\ (last'.act \in {"BatchWrite", "BatchDelete"} /\ last'.ret = "nil") =>
              /\ Len(operations') = Len(operations) + 1
              /\ SubSeq(operations', 1, Len(operations)) = operations
              /\ operations'[Len(operations')].path = normalizePath(last'.arg)
              /\ operations'[Len(operations')].type =
                    (IF last'.act = "BatchWrite" THEN BatchOpWrite ELSE BatchOpDelete)
              /\ UNCHANGED committed
        /\ (last'.act \notin {"BatchWrite", "BatchDelete", "NewBatch"})
              => operations' = operations
        /\ (last'.act = "BatchLen") => last'.n = Len(operations) ]_vars

\* A Batch.Write refused for its path on a batch that holds two operations
\* and whose earlier Commit failed at the ref update.
C35_Witness ==
    /\ last.act = "BatchWrite" /\ last.ret = "ErrInvalidPath"
    /\ Len(operations) = 2 /\ ~committed
    /\ Orphans # {}

\* C36: once Backend.Close has returned, no operation on that backend starts
\* a remote call, an operation that passed its closed check before Close ran
\* and is still in progress included.
C36_NoCallAfterClose ==
    [][ closed => last'.net = "none" ]_vars

\* C37: whatever the order in which the Commit calls on one Batch get its
\* mutex, at most one commit created for the batch ever becomes the branch
\* head, and at most one of the calls returns success with a non-empty
\* queue: such a return and such a move of the branch happen only on a batch
\* not yet committed and mark it committed, and the mark is never taken
\* back.
C37_OneCommitPerBatch ==
    [][ /\ (Cardinality({c \in Ancestors(ref) : commits[c].by = "batch"}) <= 1)'
        /\ (bLive /\ committed) => committed'
        /\ ( /\ last'.act = "BatchCommit" /\ last'.ret = "nil"
             /\ Len(operations) > 0 )
              => (~committed /\ committed' /\ bpc = "UpdateRef" /\ ref' = newCommit)
        /\ (ref' # ref /\ commits'[ref'].by = "batch")
              => (~committed /\ committed' /\ last'.act = "BatchCommit"
                  /\ last'.ret = "nil") ]_vars

\* A Commit call refused on a batch whose commit is the branch head, after
\* an earlier call had failed at its ref update and left its commit behind.
C37_Witness ==
    /\ last.act = "BatchCommit" /\ last.ret = "batch already committed"
    /\ committed /\ Len(operations) > 0
    /\ commits[ref].by = "batch"
    /\ Orphans # {}

\* C38: when a Batch.Commit succeeds, every queued Delete was resolved as the
\* base commit's tree has it: a removal entry was recorded for its path
\* exactly when the path exists in that tree, although the lookups read the
\* live branch and others may commit between the base resolution and the
\* lookups.
C38_DeletesMatchBase ==
    [][ (last'.act = "BatchCommit" /\ last'.ret = "nil" /\ bpc = "UpdateRef") =>
          \A i \in 1..Len(operations) :
              operations[i].type = BatchOpDelete =>
                  ( (\E j \in 1..Len(entries) :
                        entries[j] = [path |-> operations[i].path, blob |-> NoFile])
                    <=> Lookup(baseTree, operations[i].path) # NoFile ) ]_vars

\* A batch committed on top of another client's commit with a Delete that
\* was dropped and a Delete that was recorded.
C38_Witness ==
    /\ last.act = "BatchCommit" /\ last.ret = "nil" /\ last.net = "sent"
    /\ committed /\ commits[ref].by = "batch"
    /\ commits[commits[ref].parent].by = "other"
    /\ Len(operations) = 2
    /\ \A i \in 1..2 : operations[i].type = BatchOpDelete
    /\ \E i \in 1..2 : Lookup(commits[commits[ref].parent].tree, operations[i].path) = NoFile
    /\ \E i \in 1..2 : Lookup(commits[commits[ref].parent].tree, operations[i].path) # NoFile

\* C39: Batch.Commit never makes an empty commit.  Tree construction is
\* requested only with a non-empty list of entries, and a batch whose
\* operations are all deletes that were dropped requests no tree, no commit
\* and no ref update.
C39_NoEmptyCommit ==
    [][ ( /\ last'.act = "BatchCommit" /\ last'.net = "sent"
          /\ bpc \in {"CreateTree", "CreateCommit", "UpdateRef"} )
          => entries # <<>> ]_vars

\* C40: validatePath rejects a path exactly when one of its slash-separated
\* segments is "..": a path that merely holds two dots in a row inside a
\* name, such as "a..a", is accepted, and so is the empty path.
C40_RejectsDotDotSegments ==
    [][ last'.act = "validatePath" =>
          /\ (last'.ret = "ErrInvalidPath") <=> HasDotDotSegment(last'.arg)
          /\ last'.arg = <<>> => last'.ret = "nil" ]_vars
=============================================================================
